---- MODULE Spec2Model ----
(***************************************************************************)
(* Model of backend/job_manager.py (JobManager, Job) together with the     *)
(* parts of backend/facial_expression_recognizer.py that a job runs        *)
(* through (analyze_facial_expressions_async, run_detector_sync).          *)
(*                                                                         *)
(* The event loop is single threaded: every action below is one stretch of *)
(* code between two suspension points (await) of a coroutine, or one       *)
(* synchronous call of the JobManager API.  The detector and the video     *)
(* conversion run on the threads of the module-level ThreadPoolExecutor.   *)
(***************************************************************************)
EXTENDS Integers, Sequences, FiniteSets, Bags, TLC

\* ---------------------------------------------------------------- bounds
max_workers == 1      \* JobManager(max_workers): size of the semaphore
MaxCreates == 2       \* create_job calls in one run (caps total_submitted)
MaxTicks == 3         \* steps of the clock in one run
MaxRequests == 2      \* requests to the cached entry points in one run
MaxSessions == 2      \* session ids in use at one time
MaxRows == 1100       \* rows of a frame table
MaxStarts == 2        \* start() calls in one run
MaxQueued == 1        \* tasks on the queue of the store
MaxSignal == 3        \* values of a signal before its teeth
MaxTeeth == 11        \* teeth of a signal
MaxFree == 3          \* rows of any kind at the head of a frame table
MaxSpikes == 6        \* spikes at the end of a frame table

\* ------------------------------------------------------ program constants
ExecutorWorkers == 2  \* ThreadPoolExecutor(max_workers=2)
CACHE_TTL_SECONDS == 300
SampleBytes == 1024   \* content_sample = file_content[:1024]
MaxCacheEntries == 20 \* app.py: if len(analysis_cache) < 20
RetentionSeconds == 3600  \* _cleanup_old_jobs: total_seconds() > 3600
CleanupInterval == 600    \* _cleanup_old_jobs: asyncio.sleep(600)
DefaultMaxAgeHours == 24  \* cleanup_old_sessions(max_age_hours=24)
DefaultMaxFrames == 500   \* prepare_timeline_data(max_frames=500)
DefaultTtl == 3600        \* cache_result(ttl=3600)
PeakThreshold == 7        \* find_peaks(threshold=0.7), in tenths
MaxPeaks == 10            \* find_peaks: return peaks[:10]
SpikeThreshold == 3       \* emotion_threshold_increase=0.3, in tenths
RowLimit == 100           \* range(1, min(len(results_df_copy), 100))
MaxKeyMoments == 5        \* if len(key_moments) >= 5: break

\* the job ids callers pass: create_job is called MaxCreates times at most
JobIds == 1..MaxCreates
\* process_job is the entry point invoked once per created job: call c is the
\* background task scheduled for the c-th create_job
Calls == 1..MaxCreates
\* What the analysis reads of an upload: whether it is taken for webm
\* (content_type == 'video/webm' or the filename ends with '.webm').  The
\* uploads are webm recordings; an upload of another type goes through the
\* same code without the two suspension points of the conversion, which is
\* what a webm upload does when its conversion fails at once.
Payloads == {[webm |-> TRUE]}

\* JobStatus
QUEUED == "queued"
PROCESSING == "processing"
COMPLETED == "completed"
FAILED == "failed"
CANCELLED == "cancelled"
Terminal == {COMPLETED, FAILED, CANCELLED}

None == -1                         \* a timestamp that is not set
NoResult == [kind |-> "none"]      \* result is None
NoError == "None"                  \* error is None

NoFacesError == "No faces detected in video"
DetectorError == "detector error"   \* the text of any other exception

VARIABLES
    now,             \* the wall clock read by datetime.now(); it stands
                     \* still in the runs of Spec, where no operation
                     \* compares two times
    heap,            \* the Job objects ever constructed, by identity
    jobs,            \* JobManager.jobs: job_id -> Job object (0: no entry)
    active_workers,  \* JobManager.active_workers
    sem,             \* processing_semaphore._value
    waiters,         \* processing_semaphore._waiters (FIFO)
    stats,           \* JobManager.stats
    call,            \* the process_job coroutines: position, Job held and
                     \* video_path_for_analysis
    last,            \* the last create_job or cancel_job call: the Job it
                     \* found or made, and whether it succeeded
    cancelledQ,      \* Job objects for which cancel_job returned True
    made,            \* the last two generate_cache_key calls: arguments,
                     \* time of the call and key returned
    analysis_cache,  \* analysis_cache of each module: key -> result
    cache_timestamps,\* cache_timestamps of each module: key -> time
    reqs,            \* the requests to the cached entry points: how many
                     \* were started, and the ones in flight
    ret,             \* what the last step of a request found or returned
    sessions,        \* SessionManager.sessions: session_id -> session
    redis_client,    \* RedisManager.redis_client
    store,           \* the external key-value store: whether it can be
                     \* reached, and its keys and values
    tasks,           \* the _cleanup_old_jobs tasks made by create_task, in
                     \* the order of their creation: where each one is
    cleanup_task,    \* JobManager._cleanup_task: a task, or 0 for None
    stop_call        \* the last stop() call: whether it awaits a task or
                     \* has returned with no start() since

\* the state of the JobManager
jobvars == <<heap, jobs, active_workers, sem, waiters, stats, call, last,
             cancelledQ>>
\* the state of the cached entry points
cachevars == <<made, analysis_cache, cache_timestamps, reqs, ret>>

\* the cleanup tasks of the JobManager and its lifecycle calls
taskvars == <<tasks, cleanup_task, stop_call>>

\* the state of the SessionManager and of the RedisManager, and the
\* cleanup tasks
sidevars == <<sessions, redis_client, store, taskvars>>

vars == <<now, heap, jobs, active_workers, sem, waiters, stats, call, last,
          cancelledQ, made, analysis_cache, cache_timestamps, reqs, ret,
          sessions, redis_client, store, tasks, cleanup_task, stop_call>>

\* ------------------------------------------- the cached entry points
\* facial_expression_recognizer.py and app.py each have their own
\* analysis_cache, cache_timestamps and generate_cache_key
Modules == {"recognizer", "app"}

\* the clock is read in steps of half the TTL, so that an entry is seen at
\* the ages 0, TTL/2, TTL and 3*TTL/2
ClockStep == CACHE_TTL_SECONDS \div 2

Zeros(n) == [i \in 1..n |-> 0]

\* the uploads: A and B differ only after the sampled bytes, C differs from
\* A in the last sampled byte, D is shorter than the sample
ContentIds == {"A", "B", "C", "D"}
Bytes(ct) ==
    CASE ct = "A" -> Zeros(SampleBytes)
      [] ct = "B" -> Zeros(SampleBytes) \o <<1>>
      [] ct = "C" -> Zeros(SampleBytes - 1) \o <<1>>
      [] ct = "D" -> <<1>>

\* file_content[:n]
Take(bytes, n) == SubSeq(bytes, 1, IF Len(bytes) < n THEN Len(bytes) ELSE n)

\* hashlib.md5(...).hexdigest()[:8] is a fixed-width digest of the bytes;
\* the digest computed here is a polynomial one of 15 bits
DigestModulus == 32749

RECURSIVE Pow31(_)
Pow31(n) ==
    IF n = 0 THEN 1
    ELSE IF n % 2 = 0
    THEN LET h == Pow31(n \div 2) IN (h * h) % DigestModulus
    ELSE (31 * Pow31(n - 1)) % DigestModulus

RECURSIVE DigestRange(_, _, _)
DigestRange(bytes, lo, hi) ==
    IF lo > hi THEN 0
    ELSE IF lo = hi THEN (bytes[lo] + 1) % DigestModulus
    ELSE LET mid == (lo + hi) \div 2
         IN  (DigestRange(bytes, lo, mid) * Pow31(hi - mid)
              + DigestRange(bytes, mid + 1, hi)) % DigestModulus

md5_hexdigest8(bytes) ==
    (DigestRange(bytes, 1, Len(bytes)) + Len(bytes)) % DigestModulus

\* content_hash of each upload (lines 69-70), computed once per upload
ContentHash ==
    [ct \in ContentIds |-> md5_hexdigest8(Take(Bytes(ct), SampleBytes))]

\* AnalysisConfig; detection_threshold in hundredths
DefaultConfig ==
    [frame_skip |-> 30, analysis_type |-> "combined",
     visualization_style |-> "timeline", detection_threshold |-> 50,
     batch_size |-> 1]
Configs ==
    {DefaultConfig,
     [DefaultConfig EXCEPT !.visualization_style = "heatmap"],
     [DefaultConfig EXCEPT !.frame_skip = 15]}

\* safe_filename of analyze_video
Filenames == {"f1", "f2"}

\* config_str of both generate_cache_key functions
config_str(config) ==
    ToString(config.frame_skip) \o "_" \o config.analysis_type \o "_"
    \o ToString(config.detection_threshold)

\* a key that also holds the minute of the call
generate_cache_key_timed(ct, config) ==
    "face_" \o ToString(ContentHash[ct]) \o "_" \o config_str(config)
    \o "_" \o ToString(now \div 60)

\* facial_expression_recognizer.generate_cache_key, on the upload ct
generate_cache_key(ct, config) ==
    "face_" \o ToString(ContentHash[ct]) \o "_" \o config_str(config)

\* app.generate_cache_key, on the upload ct
app_generate_cache_key(ct, config, filename) ==
    ToString(ContentHash[ct]) \o "_" \o config_str(config)

\* the key function of module m
KeyOf(m, ct, config, filename) ==
    IF m = "app" THEN app_generate_cache_key(ct, config, filename)
    ELSE generate_cache_key(ct, config)

NoEntries == [k \in {} |-> 0]     \* an empty dict
NoReturn == [fn |-> "none", kind |-> "none"]

Unset == "unset"      \* no RedisManager has been constructed

\* both modules freshly imported, no request made; no session, no
\* RedisManager, an empty store; a JobManager that was never started
CacheIdle ==
    /\ made = <<>>
    /\ analysis_cache = [m \in Modules |-> NoEntries]
    /\ cache_timestamps = [m \in Modules |-> NoEntries]
    /\ reqs = [started |-> 0, open |-> EmptyBag]
    /\ ret = NoReturn
    /\ sessions = NoEntries
    /\ redis_client = Unset
    /\ store = [up |-> TRUE, data |-> NoEntries, queue |-> 0]
    /\ tasks = <<>>
    /\ cleanup_task = 0
    /\ stop_call = [pc |-> "idle", task |-> 0]

\* a Job whose progress starts at the first in-flight value
NewJobStarted(id, p) ==
    [job_id |-> id, payload |-> p, status |-> QUEUED, progress |-> 10,
     message |-> "Job queued", result |-> NoResult, error |-> NoError,
     started_at |-> None, completed_at |-> None]

\* Job dataclass defaults
NewJob(id, p) ==
    [job_id |-> id, payload |-> p, status |-> QUEUED, progress |-> 0,
     message |-> "Job queued", result |-> NoResult, error |-> NoError,
     started_at |-> None, completed_at |-> None]

Init ==
    /\ now = 0
    /\ heap = <<>>
    /\ jobs = [id \in JobIds |-> 0]
    /\ active_workers = 0
    /\ sem = max_workers
    /\ waiters = <<>>
    /\ stats = [total_submitted |-> 0, total_completed |-> 0,
                total_failed |-> 0, total_cancelled |-> 0]
    /\ call = [c \in Calls |-> [pc |-> "idle", obj |-> 0, path |-> "none"]]
    /\ last = [op |-> "none", ret |-> FALSE, obj |-> 0]
    /\ cancelledQ = {}
    /\ CacheIdle

Objs == 1..Len(heap)

\* the ids a caller submits: one already used, or the next unused one
\* (callers generate fresh ids, uuid4 in the transport layer)
UsedIds == {heap[o].job_id : o \in 1..Len(heap)}
FreshId(id) == id \notin UsedIds /\ \A i \in JobIds : i < id => i \in UsedIds

\* JobManager.create_job
CreateJob(id, p) ==
    /\ Len(heap) < MaxCreates
    /\ id \in UsedIds \/ FreshId(id)
    /\ heap' = Append(heap, NewJob(id, p))
    /\ jobs' = [jobs EXCEPT ![id] = Len(heap) + 1]
    /\ stats' = [stats EXCEPT !.total_submitted = @ + 1]
    /\ last' = [op |-> "create_job", ret |-> TRUE, obj |-> Len(heap) + 1]
    /\ UNCHANGED <<now, active_workers, sem, waiters, call, cancelledQ>>
    /\ UNCHANGED <<cachevars, sidevars>>

\* a cancel_job that also accepts a job that is already cancelled
CancelReturnsTwice(id) ==
    /\ jobs[id] # 0
    /\ heap[jobs[id]].status \in {QUEUED, CANCELLED}

\* JobManager.cancel_job: what it returns
CancelReturns(id) ==
    /\ jobs[id] # 0
    /\ heap[jobs[id]].status \in {QUEUED}

\* JobManager.cancel_job
CancelJob(id) ==
    /\ IF CancelReturns(id)
       THEN /\ heap' = [heap EXCEPT ![jobs[id]] =
                          [@ EXCEPT !.status = CANCELLED,
                                    !.message = "Job cancelled by user",
                                    !.completed_at = now]]
            /\ stats' = [stats EXCEPT !.total_cancelled = @ + 1]
            /\ cancelledQ' = cancelledQ \cup {jobs[id]}
       ELSE UNCHANGED <<heap, stats, cancelledQ>>
    /\ last' = [op |-> "cancel_job", ret |-> CancelReturns(id),
                obj |-> jobs[id]]
    /\ UNCHANGED <<now, jobs, active_workers, sem, waiters, call>>
    /\ UNCHANGED <<cachevars, sidevars>>

Min(a, b) == IF a < b THEN a ELSE b
Max(a, b) == IF a > b THEN a ELSE b

\* progress_callback of _process_job_internal (progress in percent)
progress_callback(job, progress, message) ==
    [job EXCEPT !.progress = Min(95, Max(10, progress)),
                !.message = IF message = "" THEN "Processing..." ELSE message]

\* _process_job_internal, up to the call of the analysis
StartProcessing(job) ==
    [job EXCEPT !.status = PROCESSING, !.started_at = now,
                !.message = "Processing video...", !.progress = 10]

\* analyze_facial_expressions_async, up to the conversion
PrepareVideo(job) ==
    progress_callback(
        progress_callback(job, 5, "Initializing analysis..."),
        10, "Preparing video...")

\* analyze_facial_expressions_async, from the conversion to the detector
SubmitDetection(job) ==
    progress_callback(job, 15, "Processing video...")

\* analyze_facial_expressions_async, after the detector returned a table
Summarize(job) ==
    progress_callback(
        progress_callback(job, 90, "Calculating summary..."),
        100, "Analysis complete!")

\* the response built by analyze_facial_expressions_async
ResponseData(job) == [kind |-> "success", payload |-> job.payload]

\* _process_job_internal, after the analysis returned
JobCompleted(job) ==
    [Summarize(job) EXCEPT !.status = COMPLETED, !.progress = 100,
                !.message = "Analysis completed successfully",
                !.result = ResponseData(job), !.completed_at = now]

\* _process_job_internal, except Exception as e
JobFailed(job, e) ==
    [job EXCEPT !.status = FAILED, !.progress = 0, !.error = e,
                !.message = "Analysis failed: " \o e, !.completed_at = now]

\* processing_semaphore is an asyncio.Semaphore: a release hands the slot to
\* the first waiter, which stays in the queue until it runs again.
\* Semaphore._wake_up_next: the first waiter whose future is not done
NextWaiter(cl, ws) ==
    LET S == {i \in 1..Len(ws) : cl[ws[i]].pc = "waiting"}
    IN  IF S = {} THEN 0 ELSE ws[CHOOSE i \in S : \A j \in S : i <= j]

\* a release that wakes no waiter
WakeUpNobody(cl, ws, s) == [call |-> cl, sem |-> s]

\* Semaphore._wake_up_next on the calls cl and the value s
WakeUpNext(cl, ws, s) ==
    LET w == NextWaiter(cl, ws)
    IN  IF w = 0 THEN [call |-> cl, sem |-> s]
        ELSE [call |-> [cl EXCEPT ![w].pc = "acquired"], sem |-> s - 1]

\* Semaphore.release
SemRelease(cl, ws, s) == WakeUpNext(cl, ws, s + 1)

\* a semaphore that still admits a caller when its value is 0
SemLockedOffByOne == sem < 0

\* Semaphore.locked
SemLocked == sem = 0 \/ waiters # <<>>

\* the pool threads that are running a task
BusyThreads ==
    Cardinality({c \in Calls : call[c].pc \in {"converting", "detecting"}})

\* process_job from the acquired slot to the first await of the analysis
EnterJob(c, o, cl) ==
    /\ active_workers' = active_workers + 1
    /\ heap' = [heap EXCEPT ![o] =
                  IF @.payload.webm
                  THEN PrepareVideo(StartProcessing(@))
                  ELSE SubmitDetection(PrepareVideo(StartProcessing(@)))]
    /\ call' = [cl EXCEPT ![c] =
                  [pc |-> IF heap[o].payload.webm THEN "conv_pending"
                          ELSE "det_pending",
                   obj |-> o, path |-> "tmp_input"]]

\* JobManager.process_job, from the call to its first suspension
ProcessJob(c, id) ==
    /\ call[c].pc = "idle"
    /\ c \in Objs
    /\ id = heap[c].job_id
    /\ IF jobs[id] = 0
       THEN /\ call' = [call EXCEPT ![c] = [pc |-> "done", obj |-> 0,
                                             path |-> "none"]]
            /\ UNCHANGED <<heap, active_workers, sem, waiters>>
       ELSE IF ~SemLocked
       THEN /\ sem' = sem - 1
            /\ EnterJob(c, jobs[id], call)
            /\ UNCHANGED waiters
       ELSE /\ waiters' = Append(waiters, c)
            /\ call' = [call EXCEPT ![c] = [pc |-> "waiting", obj |-> jobs[id],
                                             path |-> "none"]]
            /\ UNCHANGED <<heap, active_workers, sem>>
    /\ UNCHANGED <<now, jobs, stats, last, cancelledQ>>
    /\ UNCHANGED <<cachevars, sidevars>>

\* a sequence without the element c
Remove(ws, c) == SelectSeq(ws, LAMBDA x : x # c)

\* process_job resumed in Semaphore.acquire after its future was set
ResumeAcquired(c) ==
    /\ call[c].pc = "acquired"
    /\ waiters' = Remove(waiters, c)
    /\ LET r == IF sem > 0 THEN WakeUpNext(call, Remove(waiters, c), sem)
                ELSE [call |-> call, sem |-> sem]
       IN  /\ sem' = r.sem
           /\ EnterJob(c, call[c].obj, r.call)
    /\ UNCHANGED <<now, jobs, stats, last, cancelledQ>>
    /\ UNCHANGED <<cachevars, sidevars>>

\* a pool thread takes convert_video_sync
ConvertStart(c) ==
    /\ call[c].pc = "conv_pending"
    /\ BusyThreads < ExecutorWorkers
    /\ call' = [call EXCEPT ![c].pc = "converting"]
    /\ UNCHANGED <<now, heap, jobs, active_workers, sem, waiters, stats,
                   last, cancelledQ>>
    /\ UNCHANGED <<cachevars, sidevars>>

\* a conversion after which the analysis always reads the converted file
ConvertDoneReadsOutput(c, ok) ==
    /\ call[c].pc = "converting"
    /\ heap' = [heap EXCEPT ![call[c].obj] = SubmitDetection(@)]
    /\ call' = [call EXCEPT ![c].pc = "det_pending",
                             ![c].path = "tmp_output"]
    /\ UNCHANGED <<now, jobs, active_workers, sem, waiters, stats, last,
                   cancelledQ>>
    /\ UNCHANGED <<cachevars, sidevars>>

\* convert_video returned ok: the analysis goes on to the detector, with
\* the converted file if there is one
ConvertDone(c, ok) ==
    /\ call[c].pc = "converting"
    /\ heap' = [heap EXCEPT ![call[c].obj] = SubmitDetection(@)]
    /\ call' = [call EXCEPT ![c].pc = "det_pending",
                             ![c].path = IF ok THEN "tmp_output" ELSE @]
    /\ UNCHANGED <<now, jobs, active_workers, sem, waiters, stats, last,
                   cancelledQ>>
    /\ UNCHANGED <<cachevars, sidevars>>

\* a pool thread takes run_detector_sync and reaches detect_video
DetectStart(c) ==
    /\ call[c].pc = "det_pending"
    /\ BusyThreads < ExecutorWorkers
    /\ heap' = [heap EXCEPT ![call[c].obj] =
                  progress_callback(@, 30,
                      "Running facial expression analysis...")]
    /\ call' = [call EXCEPT ![c].pc = "detecting"]
    /\ UNCHANGED <<now, jobs, active_workers, sem, waiters, stats, last,
                   cancelledQ>>
    /\ UNCHANGED <<cachevars, sidevars>>

\* a process_job coroutine that has returned: its locals are gone
Returned == [pc |-> "done", obj |-> 0, path |-> "none"]

\* process_job: the finally clause and the exit of the async with
LeaveJob(c) ==
    /\ active_workers' = active_workers - 1
    /\ LET r == SemRelease([call EXCEPT ![c] = Returned], waiters, sem)
       IN  /\ call' = r.call
           /\ sem' = r.sem
    /\ UNCHANGED waiters

\* the detector returned a table with rows and the event loop resumed the
\* coroutine: the job completes
DetectReturns(c) ==
    /\ call[c].pc = "detecting"
    /\ heap' = [heap EXCEPT ![call[c].obj] = JobCompleted(@)]
    /\ stats' = [stats EXCEPT !.total_completed = @ + 1]
    /\ LeaveJob(c)
    /\ UNCHANGED <<now, jobs, last, cancelledQ>>
    /\ UNCHANGED <<cachevars, sidevars>>

\* the detector raised, or returned an empty table, and the event loop
\* resumed the coroutine: the job fails
DetectRaises(c, e) ==
    /\ call[c].pc = "detecting"
    /\ heap' = [heap EXCEPT ![call[c].obj] = JobFailed(@, e)]
    /\ stats' = [stats EXCEPT !.total_failed = @ + 1]
    /\ LeaveJob(c)
    /\ UNCHANGED <<now, jobs, last, cancelledQ>>
    /\ UNCHANGED <<cachevars, sidevars>>

\* get_detector raised on the pool thread, before any callback: the
\* exception reaches _process_job_internal like any other
DetectorInitFails(c) ==
    /\ call[c].pc = "det_pending"
    /\ BusyThreads < ExecutorWorkers
    /\ heap' = [heap EXCEPT ![call[c].obj] = JobFailed(@, DetectorError)]
    /\ stats' = [stats EXCEPT !.total_failed = @ + 1]
    /\ LeaveJob(c)
    /\ UNCHANGED <<now, jobs, last, cancelledQ>>
    /\ UNCHANGED <<cachevars, sidevars>>

\* the steps of a process_job call that holds a slot
Running(c) ==
    \/ ConvertStart(c)
    \/ \E ok \in BOOLEAN : ConvertDone(c, ok)
    \/ DetectStart(c)
    \/ DetectReturns(c)
    \/ \E e \in {NoFacesError, DetectorError} : DetectRaises(c, e)
    \/ DetectorInitFails(c)

Worker(c) ==
    \/ ResumeAcquired(c)
    \/ Running(c)

Next ==
    \/ \E id \in JobIds, p \in Payloads : CreateJob(id, p)
    \/ \E id \in JobIds : CancelJob(id)
    \/ \E c \in Calls, id \in JobIds : ProcessJob(c, id)
    \/ \E c \in Calls : Worker(c)

Spec == Init /\ [][Next]_vars

\* The event loop runs every ready coroutine and the pool threads take every
\* submitted task; a conversion reads a finite file and ends.  Nothing makes
\* a detector call return, and nothing makes a caller call the API.
Fairness ==
    \A c \in Calls :
        /\ WF_vars(ResumeAcquired(c))
        /\ WF_vars(ConvertStart(c))
        /\ WF_vars(\E ok \in BOOLEAN : ConvertDone(c, ok))
        /\ WF_vars(DetectStart(c) \/ DetectorInitFails(c))

FairSpec == Spec /\ Fairness

\* The runs in which process_job is invoked for every created job, every
\* detector call returns or raises, and the event loop and the pool threads
\* keep running what is ready: as long as a process_job call can be started
\* or can take a step, one of them does.
Termination ==
    WF_vars(\E c \in Calls : \/ c \in Objs /\ ProcessJob(c, heap[c].job_id)
                            \/ Worker(c))

TerminatingSpec == Spec /\ Termination

\* A JobManager constructed with as many worker slots as jobs are submitted
\* (the default is max_workers=3): the semaphore is never locked, so no
\* process_job call waits and none is resumed in Semaphore.acquire.
InitUnsaturated ==
    /\ now = 0
    /\ heap = <<>>
    /\ jobs = [id \in JobIds |-> 0]
    /\ active_workers = 0
    /\ sem = MaxCreates
    /\ waiters = <<>>
    /\ stats = [total_submitted |-> 0, total_completed |-> 0,
                total_failed |-> 0, total_cancelled |-> 0]
    /\ call = [c \in Calls |-> [pc |-> "idle", obj |-> 0, path |-> "none"]]
    /\ last = [op |-> "none", ret |-> FALSE, obj |-> 0]
    /\ cancelledQ = {}
    /\ CacheIdle

NextUnsaturated ==
    \/ \E id \in JobIds, p \in Payloads : CreateJob(id, p)
    \/ \E id \in JobIds : CancelJob(id)
    \/ \E c \in Calls, id \in JobIds : ProcessJob(c, id)
    \/ \E c \in Calls : Running(c)

SpecUnsaturated == InitUnsaturated /\ [][NextUnsaturated]_vars

\* ------------------------------------------------ _cleanup_old_jobs
\* the clock of the JobManager is read at three instants: at the start,
\* one retention window later and half a window after that, so that a job
\* is seen at the ages 0, 1800, 3600 and 5400
SweepTimes ==
    {0, RetentionSeconds, RetentionSeconds + RetentionSeconds \div 2}

\* no process_job call is between its first and its last step
Quiet == \A c \in Calls : call[c].pc \in {"idle", "done"}

\* datetime.now() returns a later value.  An analysis takes less than the
\* time between two of the instants, so the clock moves while no analysis
\* runs.  The cleanup loop sleeps CleanupInterval seconds between two
\* sweeps, which is less than that time too: a sweep can run at every
\* value of the clock.
Elapse ==
    /\ Quiet
    /\ \A t, u \in SweepTimes : t < u => u - t >= CleanupInterval
    /\ \E t \in SweepTimes :
          /\ t > now
          /\ \A u \in SweepTimes : u > now => t <= u
          /\ now' = t
    /\ UNCHANGED <<jobvars, cachevars, sidevars>>

\* a sweep that also removes the jobs that are exactly one hour old
is_old_inclusive(job, current_time) ==
    /\ job.status \in {COMPLETED, FAILED, CANCELLED}
    /\ job.completed_at # None
    /\ current_time - job.completed_at >= RetentionSeconds

\* _cleanup_old_jobs: the condition under which a job is removed
is_old(job, current_time) ==
    /\ job.status \in {COMPLETED, FAILED, CANCELLED}
    /\ job.completed_at # None
    /\ current_time - job.completed_at > RetentionSeconds

\* _cleanup_old_jobs: jobs_to_remove
jobs_to_remove ==
    {id \in JobIds : jobs[id] # 0 /\ is_old(heap[jobs[id]], now)}

\* _cleanup_old_jobs: one turn of the loop after its sleep
CleanupOldJobs ==
    /\ jobs' = [id \in JobIds |->
                  IF id \in jobs_to_remove THEN 0 ELSE jobs[id]]
    /\ UNCHANGED <<now, heap, active_workers, sem, waiters, stats, call,
                   last, cancelledQ>>
    /\ UNCHANGED <<cachevars, sidevars>>

\* JobManager.get_job: the Job object of the id, 0 for None
get_job(id) == jobs[id]

\* The jobs the sweep meets: uploads that are not webm, which go to the
\* detector without a conversion, and a detector that returns a table or
\* raises.
SweepPayloads == {[webm |-> FALSE]}

SweepNext ==
    \/ \E id \in JobIds, p \in SweepPayloads : CreateJob(id, p)
    \/ \E id \in JobIds : CancelJob(id)
    \/ \E c \in Calls, id \in JobIds : ProcessJob(c, id)
    \/ \E c \in Calls : ResumeAcquired(c)
    \/ \E c \in Calls : DetectStart(c)
    \/ \E c \in Calls : DetectReturns(c)
    \/ \E c \in Calls : DetectRaises(c, DetectorError)
    \/ Elapse
    \/ CleanupOldJobs

SweepSpec == Init /\ [][SweepNext]_vars

\* ------------------------------------------------- generate_cache_key
\* time.time() returns a later value
ClockTick ==
    /\ now < MaxTicks * ClockStep
    /\ now' = now + ClockStep
    /\ UNCHANGED <<jobvars, cachevars, sidevars>>

\* a call of generate_cache_key of module m; the last two calls are kept
GenerateKey(m, ct, config, filename) ==
    /\ Len(made) < 2
    /\ made' = Append(made, [fn |-> m, content |-> ct, config |-> config,
                             filename |-> filename, at |-> now,
                             key |-> KeyOf(m, ct, config, filename)])
    /\ UNCHANGED <<now, jobvars, sidevars, analysis_cache, cache_timestamps,
                   reqs, ret>>

KeyNext ==
    \/ ClockTick
    \/ \E ct \in ContentIds, config \in Configs :
          GenerateKey("recognizer", ct, config, "")
    \/ \E ct \in ContentIds, config \in Configs, filename \in Filenames :
          GenerateKey("app", ct, config, filename)

KeySpec == Init /\ [][KeyNext]_vars

\* ------------------------------------------- the cached entry points
\* d[k] = v
Put(d, k, v) == [x \in DOMAIN d \cup {k} |-> IF x = k THEN v ELSE d[x]]
\* d.pop(k, None) for every k of ks
Pop(d, ks) == [x \in DOMAIN d \ ks |-> d[x]]

\* clean_expired_cache: the keys it removes from both dicts of module m
expired_keys(m) ==
    {k \in DOMAIN cache_timestamps[m] :
        now - cache_timestamps[m][k] > CACHE_TTL_SECONDS}

\* the response of an analysis of upload ct under config, made at time t
response_data(ct, config, t) ==
    [content |-> ct, config |-> config, processed_at |-> t]

\* what the requests to the cached entry points submit: two uploads that
\* share their sampled bytes and one that does not, under two configs that
\* differ in a field that is not part of the key
RequestContents == {"A", "B", "C"}
RequestConfigs ==
    {DefaultConfig, [DefaultConfig EXCEPT !.visualization_style = "heatmap"]}

\* the values of the clock
Times == {k * ClockStep : k \in 0..MaxTicks}

\* a request in flight: the entry point, where it is suspended, its
\* arguments, its cache_key and (analyze_video) its current_time
Request(m, p, ct, config, filename, t) ==
    [fn |-> m, pc |-> p, content |-> ct, config |-> config,
     key |-> KeyOf(m, ct, config, filename), current_time |-> t]

Requests ==
    {Request("recognizer", "analysing", ct, config, "", 0) :
        ct \in RequestContents, config \in RequestConfigs}
    \cup {Request("app", "reading", ct, config, filename, 0) :
        ct \in RequestContents, config \in RequestConfigs,
        filename \in Filenames}
    \cup {Request("app", "analysing", ct, config, filename, t) :
        ct \in RequestContents, config \in RequestConfigs,
        filename \in Filenames, t \in Times}

\* a request is started, returns, or goes on as another record
Started(r) ==
    [started |-> reqs.started + 1, open |-> reqs.open (+) SetToBag({r})]
Finished(r) == [reqs EXCEPT !.open = @ (-) SetToBag({r})]
Continued(r, q) ==
    [reqs EXCEPT !.open = (@ (-) SetToBag({r})) (+) SetToBag({q})]

\* facial_expression_recognizer.analyze_facial_expressions, up to the
\* return of the cached result or to the await of the analysis
LegacyCall(ct, config) ==
    /\ LET m == "recognizer"
           cache == Pop(analysis_cache[m], expired_keys(m))
           stamps == Pop(cache_timestamps[m], expired_keys(m))
           cache_key == generate_cache_key(ct, config)
           hit == /\ cache_key \in DOMAIN cache
                  /\ now - (IF cache_key \in DOMAIN stamps
                            THEN stamps[cache_key] ELSE 0)
                       < CACHE_TTL_SECONDS
       IN  /\ analysis_cache' = [analysis_cache EXCEPT ![m] = cache]
           /\ cache_timestamps' = [cache_timestamps EXCEPT ![m] = stamps]
           /\ IF hit
              THEN /\ reqs' = [reqs EXCEPT !.started = @ + 1]
                   /\ ret' = [fn |-> m, kind |-> "hit", key |-> cache_key,
                              result |-> cache[cache_key]]
              ELSE /\ reqs' = Started(Request(m, "analysing", ct, config,
                                              "", 0))
                   /\ ret' = [fn |-> m, kind |-> "miss", key |-> cache_key,
                              result |-> NoResult]
    /\ UNCHANGED <<now, jobvars, sidevars, made>>

\* one of the MaxRequests requests of a run is a call of
\* analyze_facial_expressions
LegacyBegin(ct, config) ==
    /\ reqs.started < MaxRequests
    /\ LegacyCall(ct, config)

\* analyze_facial_expressions after the analysis: the result is stored with
\* the time of the store, or the exception of the analysis propagates
LegacyEnd(r, ok) ==
    /\ BagIn(r, reqs.open)
    /\ r.fn = "recognizer"
    /\ LET m == "recognizer"
           result == response_data(r.content, r.config, now)
       IN  IF ok
           THEN /\ analysis_cache' =
                      [analysis_cache EXCEPT ![m] = Put(@, r.key, result)]
                /\ cache_timestamps' =
                      [cache_timestamps EXCEPT ![m] = Put(@, r.key, now)]
                /\ ret' = [fn |-> m, kind |-> "computed", key |-> r.key,
                           result |-> result]
           ELSE /\ ret' = [fn |-> m, kind |-> "raised", key |-> r.key,
                           result |-> NoResult]
                /\ UNCHANGED <<analysis_cache, cache_timestamps>>
    /\ reqs' = Finished(r)
    /\ UNCHANGED <<now, jobvars, sidevars, made>>

\* app.analyze_video up to await file.read()
AppCall(ct, config, filename) ==
    /\ LET m == "app"
       IN  /\ analysis_cache' =
                 [analysis_cache EXCEPT ![m] = Pop(@, expired_keys(m))]
           /\ cache_timestamps' =
                 [cache_timestamps EXCEPT ![m] = Pop(@, expired_keys(m))]
    /\ reqs' = Started(Request("app", "reading", ct, config, filename, 0))
    /\ UNCHANGED <<now, jobvars, sidevars, made, ret>>

\* one of the MaxRequests requests of a run is a call of analyze_video
AppBegin(ct, config, filename) ==
    /\ reqs.started < MaxRequests
    /\ AppCall(ct, config, filename)

\* analyze_video from the read of the upload to the return of the cached
\* result or to the first await of the analysis
AppLookup(r) ==
    /\ BagIn(r, reqs.open)
    /\ r.pc = "reading"
    /\ LET m == "app"
           cache_key == r.key
           present == /\ cache_key \in DOMAIN analysis_cache[m]
                      /\ cache_key \in DOMAIN cache_timestamps[m]
           hit == /\ present
                  /\ now - cache_timestamps[m][cache_key] < CACHE_TTL_SECONDS
       IN  IF hit
           THEN /\ reqs' = Finished(r)
                /\ ret' = [fn |-> m, kind |-> "hit", key |-> cache_key,
                           result |-> analysis_cache[m][cache_key]]
                /\ UNCHANGED <<analysis_cache, cache_timestamps>>
           ELSE /\ reqs' = Continued(r, [r EXCEPT !.pc = "analysing",
                                                  !.current_time = now])
                /\ ret' = [fn |-> m, kind |-> "miss", key |-> cache_key,
                           result |-> NoResult]
                /\ IF present
                   THEN /\ analysis_cache' =
                              [analysis_cache EXCEPT
                                  ![m] = Pop(@, {cache_key})]
                        /\ cache_timestamps' =
                              [cache_timestamps EXCEPT
                                  ![m] = Pop(@, {cache_key})]
                   ELSE UNCHANGED <<analysis_cache, cache_timestamps>>
    /\ UNCHANGED <<now, jobvars, sidevars, made>>

\* analyze_video after the analysis: the result is stored, if the cache has
\* room, with the time of the lookup; or the analysis raised
AppEnd(r, ok) ==
    /\ BagIn(r, reqs.open)
    /\ r.pc = "analysing"
    /\ r.fn = "app"
    /\ LET m == "app"
           result == response_data(r.content, r.config, now)
       IN  IF ok
           THEN /\ IF Cardinality(DOMAIN analysis_cache[m]) < MaxCacheEntries
                   THEN /\ analysis_cache' =
                              [analysis_cache EXCEPT
                                  ![m] = Put(@, r.key, result)]
                        /\ cache_timestamps' =
                              [cache_timestamps EXCEPT
                                  ![m] = Put(@, r.key, r.current_time)]
                   ELSE UNCHANGED <<analysis_cache, cache_timestamps>>
                /\ ret' = [fn |-> m, kind |-> "computed", key |-> r.key,
                           result |-> result]
           ELSE /\ ret' = [fn |-> m, kind |-> "raised", key |-> r.key,
                           result |-> NoResult]
                /\ UNCHANGED <<analysis_cache, cache_timestamps>>
    /\ reqs' = Finished(r)
    /\ UNCHANGED <<now, jobvars, sidevars, made>>

\* a health check that sweeps the timestamps and leaves the results
HealthCheckStampsOnly ==
    /\ expired_keys("app") # {}
    /\ cache_timestamps' =
          [cache_timestamps EXCEPT !["app"] = Pop(@, expired_keys("app"))]
    /\ UNCHANGED <<now, jobvars, sidevars, made, reqs, ret, analysis_cache>>

\* app.health_check: the sweep of the expired entries
HealthCheck ==
    /\ expired_keys("app") # {}
    /\ analysis_cache' =
          [analysis_cache EXCEPT !["app"] = Pop(@, expired_keys("app"))]
    /\ cache_timestamps' =
          [cache_timestamps EXCEPT !["app"] = Pop(@, expired_keys("app"))]
    /\ UNCHANGED <<now, jobvars, sidevars, made, reqs, ret>>

\* app.clear_cache_endpoint; the response names cache_size
ClearCacheEndpoint ==
    /\ ret' = [fn |-> "app", kind |-> "cleared",
               count |-> Cardinality(DOMAIN analysis_cache["app"])]
    /\ analysis_cache' = [analysis_cache EXCEPT !["app"] = NoEntries]
    /\ cache_timestamps' = [cache_timestamps EXCEPT !["app"] = NoEntries]
    /\ UNCHANGED <<now, jobvars, sidevars, made, reqs>>

\* JobManager.cache: an empty dict from __init__ on, since no code of the
\* program stores into it
self_cache == NoEntries

\* JobManager.clear_cache: self.cache.clear() leaves the empty dict empty
ClearCache ==
    /\ ret' = [fn |-> "job_manager", kind |-> "cleared",
               count |-> Cardinality(DOMAIN self_cache)]
    /\ UNCHANGED <<now, jobvars, sidevars, made, analysis_cache,
                   cache_timestamps, reqs>>

CacheNext ==
    \/ ClockTick
    \/ \E ct \in RequestContents, config \in RequestConfigs :
          LegacyBegin(ct, config)
    \/ \E r \in Requests, ok \in BOOLEAN : LegacyEnd(r, ok)
    \/ \E ct \in RequestContents, config \in RequestConfigs,
          filename \in Filenames : AppBegin(ct, config, filename)
    \/ \E r \in Requests : AppLookup(r)
    \/ \E r \in Requests, ok \in BOOLEAN : AppEnd(r, ok)
    \/ HealthCheck
    \/ ClearCacheEndpoint

CacheSpec == Init /\ [][CacheNext]_vars

\* the cached entry points together with the cache operation of the
\* JobManager
ClearNext ==
    \/ CacheNext
    \/ ClearCache

ClearSpec == Init /\ [][ClearNext]_vars

\* ---------------------------------------------------- SessionManager
SessionIds == 1..MaxSessions
NoJob == 0                         \* "current_job": None

\* create_job's arguments for a job of session s
SessionPayloads == {[webm |-> FALSE, session_id |-> s] : s \in SessionIds}

\* Job.session_id
session_id(job) == job.payload.session_id

\* the session ids that no session and no Job carries: uuid4 returns an id
\* that is in use nowhere
UnusedSessionIds ==
    {s \in SessionIds :
        /\ s \notin DOMAIN sessions
        /\ \A o \in Objs : session_id(heap[o]) # s}

\* SessionManager.create_session
CreateSession(s) ==
    /\ s \in UnusedSessionIds
    /\ \A t \in UnusedSessionIds : s <= t
    /\ sessions' = Put(sessions, s,
                       [created_at |-> now, status |-> "ready",
                        current_job |-> NoJob, cache |-> NoEntries])
    /\ UNCHANGED <<now, jobvars, cachevars, redis_client, store, taskvars>>

\* the updates of update_session: the three values of "status" that
\* create_session names, a job id going with "processing"
SessionUpdates ==
    {[status |-> "processing", current_job |-> id] : id \in JobIds}
    \cup {[status |-> st, current_job |-> NoJob] : st \in {"ready", "error"}}

\* dict.update
Update(d, updates) ==
    [f \in DOMAIN d \cup DOMAIN updates |->
        IF f \in DOMAIN updates THEN updates[f] ELSE d[f]]

\* SessionManager.update_session
UpdateSession(s, updates) ==
    /\ sessions' = IF s \in DOMAIN sessions
                   THEN [sessions EXCEPT ![s] = Update(@, updates)]
                   ELSE sessions
    /\ UNCHANGED <<now, jobvars, cachevars, redis_client, store, taskvars>>

\* SessionManager.delete_session
DeleteSession(s) ==
    /\ sessions' = Pop(sessions, {s})
    /\ UNCHANGED <<now, jobvars, cachevars, redis_client, store, taskvars>>

\* a sweep that spares the sessions that are "processing"
to_delete_idle(max_age_hours) ==
    {s \in DOMAIN sessions :
        /\ sessions[s].created_at < now - max_age_hours * 3600
        /\ sessions[s].status # "processing"}

\* cleanup_old_sessions: to_delete, with cutoff = now - max_age_hours hours
to_delete(max_age_hours) ==
    {s \in DOMAIN sessions :
        sessions[s].created_at < now - max_age_hours * 3600}

\* the max_age_hours callers pass: none, one hour, the default
MaxAgeHours == {0, 1, DefaultMaxAgeHours}

\* SessionManager.cleanup_old_sessions
CleanupOldSessions(max_age_hours) ==
    /\ sessions' = Pop(sessions, to_delete(max_age_hours))
    /\ UNCHANGED <<now, jobvars, cachevars, redis_client, store, taskvars>>

\* the current job a caller records for session s is a job of s
OwnJob(s, updates) ==
    IF updates.current_job = NoJob THEN TRUE
    ELSE /\ jobs[updates.current_job] # 0
         /\ session_id(heap[jobs[updates.current_job]]) = s

\* a caller's update_session
RecordUpdate(s, updates) == OwnJob(s, updates) /\ UpdateSession(s, updates)

\* a caller's create_job, under a fresh id
SubmitJob(id, p) == FreshId(id) /\ CreateJob(id, p)

\* sessions and the jobs created for them; the clock is that of the sweeps
SessionNext ==
    \/ \E s \in SessionIds : CreateSession(s)
    \/ \E s \in SessionIds, updates \in SessionUpdates :
          RecordUpdate(s, updates)
    \/ \E s \in SessionIds : DeleteSession(s)
    \/ \E max_age_hours \in MaxAgeHours : CleanupOldSessions(max_age_hours)
    \/ \E id \in JobIds, p \in SessionPayloads : SubmitJob(id, p)
    \/ Elapse

SessionSpec == Init /\ [][SessionNext]_vars

\* ------------------------------------------ JobManager.start and stop
\* the cleanup tasks one run creates
TaskIds == 1..MaxStarts

\* JobManager.start: a new task runs _cleanup_old_jobs and becomes
\* self._cleanup_task; the task that was there before is neither cancelled
\* nor kept anywhere
Start ==
    /\ Len(tasks) < MaxStarts
    /\ stop_call.pc # "awaiting"
    /\ tasks' = Append(tasks, "sleeping")
    /\ cleanup_task' = Len(tasks) + 1
    /\ stop_call' = [pc |-> "idle", task |-> 0]
    /\ UNCHANGED <<now, jobvars, cachevars, sessions, redis_client, store>>

\* JobManager.stop up to its await or, with no task to await, its return:
\* self._cleanup_task.cancel() asks a task that has not finished to stop;
\* awaiting a task that has finished returns at once
StopCall ==
    /\ stop_call.pc # "awaiting"
    /\ IF cleanup_task = 0
       THEN /\ stop_call' = [pc |-> "returned", task |-> 0]
            /\ UNCHANGED tasks
       ELSE IF tasks[cleanup_task] = "done"
            THEN /\ stop_call' = [pc |-> "returned", task |-> 0]
                 /\ UNCHANGED tasks
            ELSE /\ stop_call' = [pc |-> "awaiting", task |-> cleanup_task]
                 /\ tasks' = [tasks EXCEPT ![cleanup_task] = "cancelling"]
    /\ UNCHANGED <<now, jobvars, cachevars, sessions, redis_client, store,
                   cleanup_task>>

\* _cleanup_old_jobs: CancelledError is raised at the sleep and the loop
\* is left
TaskCancelled(t) ==
    /\ t \in DOMAIN tasks
    /\ tasks[t] = "cancelling"
    /\ tasks' = [tasks EXCEPT ![t] = "done"]
    /\ UNCHANGED <<now, jobvars, cachevars, sessions, redis_client, store,
                   cleanup_task, stop_call>>

\* JobManager.stop after its await: the awaited task has finished
StopReturn ==
    /\ stop_call.pc = "awaiting"
    /\ tasks[stop_call.task] = "done"
    /\ stop_call' = [pc |-> "returned", task |-> 0]
    /\ UNCHANGED <<now, jobvars, cachevars, sessions, redis_client, store,
                   tasks, cleanup_task>>

\* _cleanup_old_jobs: task t wakes from its sleep and makes one turn of
\* the loop
TaskSweep(t) ==
    /\ t \in DOMAIN tasks
    /\ tasks[t] = "sleeping"
    /\ CleanupOldJobs

\* jobs are created and cancelled, the clock moves, the manager is started
\* and stopped, and every task that is alive sweeps
LifecycleNext ==
    \/ \E id \in JobIds, p \in SweepPayloads : SubmitJob(id, p)
    \/ \E id \in JobIds : CancelJob(id)
    \/ Elapse
    \/ Start
    \/ StopCall
    \/ \E t \in TaskIds : TaskCancelled(t)
    \/ StopReturn
    \/ \E t \in TaskIds : TaskSweep(t)

LifecycleSpec == Init /\ [][LifecycleNext]_vars

\* ------------------------------------------------ filling the caches
\* A client that submits one upload under more configs than a cache is
\* meant to hold, every (content, config) pair twice in a row, waiting for
\* each response before the next request, and that keeps to one of the
\* two entry points as long as the cache of that entry point has entries.
\* Every analysis succeeds, and the whole run is shorter than the TTL: no
\* entry expires.
FillPairs == MaxCacheEntries + MaxRequests

\* the config of the i-th pair: frame_skip is part of the key
FillConfig(i) == [DefaultConfig EXCEPT !.frame_skip = i]

\* the pair whose turn it is: pair i is submitted by the requests 2i-1, 2i
Turn == reqs.started \div 2 + 1

FillRequests ==
    {Request("recognizer", "analysing", "A", FillConfig(i), "", 0) :
        i \in 1..FillPairs}
    \cup {Request("app", "reading", "A", FillConfig(i), "f1", 0) :
        i \in 1..FillPairs}
    \cup {Request("app", "analysing", "A", FillConfig(i), "f1", t) :
        i \in 1..FillPairs, t \in Times}

\* the client may call the entry point of module m
ClientReady(m) ==
    /\ Turn <= FillPairs
    /\ reqs.open = EmptyBag
    /\ \A o \in Modules \ {m} : DOMAIN analysis_cache[o] = {}

FillLegacy(i) ==
    /\ ClientReady("recognizer")
    /\ i = Turn
    /\ LegacyCall("A", FillConfig(i))

FillApp(i) ==
    /\ ClientReady("app")
    /\ i = Turn
    /\ AppCall("A", FillConfig(i), "f1")

FillNext ==
    \/ \E i \in 1..FillPairs : FillLegacy(i)
    \/ \E r \in FillRequests : LegacyEnd(r, TRUE)
    \/ \E i \in 1..FillPairs : FillApp(i)
    \/ \E r \in FillRequests : AppLookup(r)
    \/ \E r \in FillRequests : AppEnd(r, TRUE)
    \/ ClearCacheEndpoint

FillSpec == Init /\ [][FillNext]_vars

\* --------------------------------------------------------- read views
\* self.jobs.values()
job_values == {heap[jobs[id]] : id \in {i \in JobIds : jobs[i] # 0}}

\* the dict of get_active_jobs and of get_queued_jobs for a job, with the
\* fields of the Job that the model carries
ActiveView(job) ==
    [job_id |-> job.job_id, status |-> job.status, progress |-> job.progress]
QueuedView(job) == [job_id |-> job.job_id]

\* a view of the jobs that are QUEUED only
get_queued_only ==
    {ActiveView(job) : job \in {j \in job_values : j.status = QUEUED}}

\* JobManager.get_active_jobs
get_active_jobs ==
    {ActiveView(job) :
        job \in {j \in job_values : j.status \in {QUEUED, PROCESSING}}}

\* JobManager.get_queued_jobs
get_queued_jobs ==
    {QueuedView(job) : job \in {j \in job_values : j.status = QUEUED}}

\* JobManager.get_stats
get_stats ==
    [total_submitted |-> stats.total_submitted,
     total_completed |-> stats.total_completed,
     total_failed |-> stats.total_failed,
     total_cancelled |-> stats.total_cancelled,
     active_jobs |->
         Cardinality({id \in JobIds :
                         jobs[id] # 0 /\ heap[jobs[id]].status = PROCESSING}),
     queued_jobs |->
         Cardinality({id \in JobIds :
                         jobs[id] # 0 /\ heap[jobs[id]].status = QUEUED}),
     total_jobs |-> Cardinality({id \in JobIds : jobs[id] # 0}),
     active_workers |-> active_workers,
     max_workers |-> max_workers]

\* a call of one of the read views, which hands value to its caller
Query(op, value) ==
    /\ ret = NoReturn
    /\ ret' = [fn |-> "job_manager", kind |-> op, value |-> value]
    /\ UNCHANGED <<now, jobvars, sidevars, made, analysis_cache,
                   cache_timestamps, reqs>>

GetJob(id) == Query("get_job", get_job(id))
GetActiveJobs == Query("get_active_jobs", get_active_jobs)
GetQueuedJobs == Query("get_queued_jobs", get_queued_jobs)
GetStats == Query("get_stats", get_stats)

\* the caller has taken what the view returned
TakeResult ==
    /\ ret # NoReturn
    /\ ret' = NoReturn
    /\ UNCHANGED <<now, jobvars, sidevars, made, analysis_cache,
                   cache_timestamps, reqs>>

\* a step of the job manager, between two views
JobStep ==
    /\ ret = NoReturn
    /\ \/ \E id \in JobIds, p \in SweepPayloads : CreateJob(id, p)
       \/ \E id \in JobIds : CancelJob(id)
       \/ \E c \in Calls : ProcessJob(c, heap[c].job_id)
       \/ \E c \in Calls : ResumeAcquired(c)
       \/ \E c \in Calls : DetectStart(c)
       \/ \E c \in Calls : DetectReturns(c)
       \/ \E c \in Calls : DetectRaises(c, DetectorError)

\* jobs of uploads that need no conversion, with the read views called
\* between the steps of the job manager
QueryNext ==
    \/ JobStep
    \/ \E id \in JobIds : GetJob(id)
    \/ GetActiveJobs
    \/ GetQueuedJobs
    \/ GetStats
    \/ TakeResult

QuerySpec == Init /\ [][QueryNext]_vars

\* ------------------------------------------------------------ settings
AnalysisTypes == {"emotions", "aus", "combined", "landmarks"}
VisualizationStyles == {"timeline", "heatmap", "distribution"}

\* The settings argument: None, or a text that json.loads accepts (json)
\* or not, which names a frameSkip, an analysisType and a
\* visualizationStyle.
NoSettings ==
    [given |-> FALSE, json |-> TRUE, frameSkip |-> 30,
     analysisType |-> "combined", visualizationStyle |-> "timeline"]
SettingsTexts ==
    [given : {TRUE}, json : BOOLEAN, frameSkip : {15},
     analysisType : {"emotions", "bogus"},
     visualizationStyle : {"heatmap", "bogus"}]
Settings == {NoSettings} \cup SettingsTexts

\* analyze_facial_expressions_async: the config built from settings; any
\* exception of json.loads, AnalysisType() or VisualizationStyle() is
\* logged and leaves the default config
AnalysisConfigOf(settings) ==
    IF ~settings.given THEN DefaultConfig
    ELSE IF ~settings.json THEN DefaultConfig
    ELSE IF settings.analysisType \notin AnalysisTypes THEN DefaultConfig
    ELSE IF settings.visualizationStyle \notin VisualizationStyles
    THEN DefaultConfig
    ELSE [frame_skip |-> settings.frameSkip,
          analysis_type |-> settings.analysisType,
          visualization_style |-> settings.visualizationStyle,
          detection_threshold |-> DefaultConfig.detection_threshold,
          batch_size |-> DefaultConfig.batch_size]

\* create_job's arguments for a job with settings
SettingsPayloads == {[webm |-> FALSE, settings |-> st] : st \in Settings}

\* Job.settings of the job that call c processes, and the config of c
settings_of(c) == heap[call[c].obj].payload.settings
config_of(c) == AnalysisConfigOf(settings_of(c))

\* jobs with settings, each under a fresh id, and their processing
SettingsNext ==
    \/ \E id \in JobIds, p \in SettingsPayloads : SubmitJob(id, p)
    \/ \E c \in Calls : ProcessJob(c, heap[c].job_id)
    \/ \E c \in Calls : ResumeAcquired(c)
    \/ \E c \in Calls : DetectStart(c)
    \/ \E c \in Calls : DetectReturns(c)
    \/ \E c \in Calls : DetectRaises(c, DetectorError)

SettingsSpec == Init /\ [][SettingsNext]_vars

\* -------------------------------------------------------- RedisManager
NoClient == "none"                 \* redis_client is None
Client == "client"                 \* redis_client is a redis client
NoValue == "None"                  \* a call returned None

VideoHashes == {"h1"}
CachedResults == {"r1"}
CacheKeys == SessionIds \X VideoHashes

\* f"session:{session_id}:video:{video_hash}"
cache_key(s, h) == <<s, h>>

\* json.dumps(result, default=str) and json.loads of it
dumps(result) == [json |-> result]
loads(text) == text.json

\* the keys of the store that match "session:*", and f"session:{s}:*"
all_keys == DOMAIN store.data
session_keys(s) == {k \in DOMAIN store.data : k[1] = s}

\* what a call of RedisManager hands to its caller
Returning(op, value) ==
    [fn |-> "redis", kind |-> "returned", op |-> op, value |-> value]
Raising(op) ==
    [fn |-> "redis", kind |-> "raised", op |-> op, value |-> NoValue]

\* an except clause that lets the exception go on to the caller
Uncaught(op, value) == Raising(op)

\* an except clause of RedisManager: the call returns value
Caught(op, value) == Returning(op, value)

\* the store goes down, or comes up again
StoreDown ==
    /\ store.up
    /\ store' = [store EXCEPT !.up = FALSE]
    /\ UNCHANGED <<now, jobvars, cachevars, sessions, redis_client,
                   taskvars>>

StoreUp ==
    /\ ~store.up
    /\ store' = [store EXCEPT !.up = TRUE]
    /\ UNCHANGED <<now, jobvars, cachevars, sessions, redis_client,
                   taskvars>>

\* RedisManager.__init__: from_url and a ping; on any exception the client
\* is None
RedisManagerInit ==
    /\ redis_client = Unset
    /\ redis_client' = IF store.up THEN Client ELSE NoClient
    /\ UNCHANGED <<now, jobvars, cachevars, sessions, store, taskvars>>

\* a call of a RedisManager that has been constructed, which hands r to its
\* caller and leaves the store as st
RedisCall(r, st) ==
    /\ redis_client # Unset
    /\ ret' = r
    /\ store' = st
    /\ UNCHANGED <<now, jobvars, sessions, redis_client, taskvars, made,
                   analysis_cache, cache_timestamps, reqs>>

\* RedisManager.ping
Ping ==
    RedisCall(IF redis_client = NoClient THEN Returning("ping", FALSE)
              ELSE IF store.up THEN Returning("ping", TRUE)
              ELSE Caught("ping", FALSE),
              store)

\* RedisManager.get_cached_result
GetCachedResult(s, h) ==
    RedisCall(IF redis_client = NoClient
              THEN Returning("get_cached_result", NoValue)
              ELSE IF ~store.up THEN Caught("get_cached_result", NoValue)
              ELSE IF cache_key(s, h) \in DOMAIN store.data
              THEN Returning("get_cached_result",
                             loads(store.data[cache_key(s, h)].value))
              ELSE Returning("get_cached_result", NoValue),
              store)

\* RedisManager.cache_result, with the default ttl
CacheResult(s, h, result) ==
    IF redis_client = NoClient
    THEN RedisCall(Returning("cache_result", NoValue), store)
    ELSE IF ~store.up
    THEN RedisCall(Caught("cache_result", NoValue), store)
    ELSE RedisCall(Returning("cache_result", NoValue),
                   [store EXCEPT !.data =
                       Put(@, cache_key(s, h),
                           [value |-> dumps(result), ttl |-> DefaultTtl])])

\* RedisManager.get_queue_length
GetQueueLength ==
    RedisCall(IF redis_client = NoClient
              THEN Returning("get_queue_length", 0)
              ELSE IF store.up
              THEN Returning("get_queue_length", store.queue)
              ELSE Caught("get_queue_length", 0),
              store)

\* In the calls below the connection may drop after keys() returned: the
\* store is down from then on.
Dropped == [store EXCEPT !.up = FALSE]

\* RedisManager.clear_session_cache
ClearSessionCache(s, drop) ==
    IF redis_client = NoClient
    THEN ~drop /\ RedisCall(Returning("clear_session_cache", NoValue), store)
    ELSE IF ~store.up
    THEN ~drop /\ RedisCall(Caught("clear_session_cache", NoValue), store)
    ELSE IF session_keys(s) = {}
    THEN ~drop /\ RedisCall(Returning("clear_session_cache", NoValue), store)
    ELSE IF drop
    THEN RedisCall(Caught("clear_session_cache", NoValue), Dropped)
    ELSE RedisCall(Returning("clear_session_cache", NoValue),
                   [store EXCEPT !.data = Pop(@, session_keys(s))])

\* RedisManager.clear_all_cache
ClearAllCache(drop) ==
    IF redis_client = NoClient
    THEN ~drop /\ RedisCall(Returning("clear_all_cache", 0), store)
    ELSE IF ~store.up
    THEN ~drop /\ RedisCall(Caught("clear_all_cache", 0), store)
    ELSE IF all_keys = {}
    THEN ~drop /\ RedisCall(Returning("clear_all_cache", 0), store)
    ELSE IF drop
    THEN RedisCall(Caught("clear_all_cache", 0), Dropped)
    ELSE RedisCall(Returning("clear_all_cache", Cardinality(all_keys)),
                   [store EXCEPT !.data = NoEntries])

\* get_cache_info's result for the keys and their timestamps
CacheInfo(keys, timestamps) ==
    [size |-> Cardinality(keys), entries |-> keys, timestamps |-> timestamps]
NoCacheInfo == CacheInfo({}, NoEntries)

\* get_cache_info: the timestamp of a key whose ttl is ttl
Timestamp(ttl) == IF ttl > 0 THEN "TTL" ELSE "No expiry"

\* RedisManager.get_cache_info: an exception of ttl() is caught for each
\* key on its own
GetCacheInfo(drop) ==
    IF redis_client = NoClient
    THEN ~drop /\ RedisCall(Returning("get_cache_info", NoCacheInfo), store)
    ELSE IF ~store.up
    THEN ~drop /\ RedisCall(Caught("get_cache_info", NoCacheInfo), store)
    ELSE IF all_keys = {}
    THEN ~drop /\ RedisCall(Returning("get_cache_info", NoCacheInfo), store)
    ELSE IF drop
    THEN RedisCall(Returning("get_cache_info",
                       CacheInfo(all_keys,
                                 [k \in all_keys |-> "Unknown"])),
                   Dropped)
    ELSE RedisCall(Returning("get_cache_info",
                       CacheInfo(all_keys,
                                 [k \in all_keys |->
                                    Timestamp(store.data[k].ttl)])),
                   store)

\* a task is put on the 'celery' list of the store
Enqueue ==
    /\ store.up
    /\ store.queue < MaxQueued
    /\ store' = [store EXCEPT !.queue = @ + 1]
    /\ UNCHANGED <<now, jobvars, cachevars, sessions, redis_client,
                   taskvars>>

RedisNext ==
    \/ StoreDown
    \/ StoreUp
    \/ Enqueue
    \/ RedisManagerInit
    \/ Ping
    \/ \E s \in SessionIds, h \in VideoHashes : GetCachedResult(s, h)
    \/ \E s \in SessionIds, h \in VideoHashes, result \in CachedResults :
          CacheResult(s, h, result)
    \/ GetQueueLength
    \/ \E s \in SessionIds, drop \in BOOLEAN : ClearSessionCache(s, drop)
    \/ \E drop \in BOOLEAN : ClearAllCache(drop)
    \/ \E drop \in BOOLEAN : GetCacheInfo(drop)

RedisSpec == Init /\ [][RedisNext]_vars

\* ---------------------------------------------- prepare_timeline_data
NaN == -2                          \* a missing value of a column

\* The frame tables: len rows, indexed from 0, with a 'times' column or
\* without, and with the columns in columns.  Row i holds the time i (in
\* frames) and, in every other column, the value i or a missing value.
TimelineColumns == {"happiness"}
FrameTables ==
    [len : 0..MaxRows, times : BOOLEAN, columns : SUBSET TimelineColumns]
TimeAt(i) == i
ValueAt(i) == IF i % 4 = 3 THEN NaN ELSE i

\* Series.fillna(0), one value
fillna(x) == IF x = NaN THEN 0 ELSE x

\* safe_convert_to_python_types, for a number or a missing value; the
\* function of app.py takes the values of tolist() as they are
safe_convert_to_python_types(m, x) ==
    IF m = "recognizer" /\ x = NaN THEN None ELSE x

\* the rows of results.iloc[::step]: 0, step, 2 * step, ... below len
iloc(len, step) == [k \in 1..((len + step - 1) \div step) |-> (k - 1) * step]

\* the rows prepare_timeline_data keeps
results_sampled(len, max_frames) ==
    IF len > max_frames
    THEN iloc(len, len \div max_frames)
    ELSE iloc(len, 1)

\* prepare_timeline_data of module m
prepare_timeline_data(m, results, columns, max_frames) ==
    IF results.len = 0 THEN [f \in {"timestamps"} |-> <<>>]
    ELSE LET rows == results_sampled(results.len, max_frames)
         IN  [f \in {"timestamps"} \cup (columns \cap results.columns) |->
                IF f = "timestamps"
                THEN IF results.times
                     THEN [k \in DOMAIN rows |->
                             safe_convert_to_python_types(m, TimeAt(rows[k]))]
                     ELSE [k \in DOMAIN rows |-> k - 1]
                ELSE [k \in DOMAIN rows |->
                        safe_convert_to_python_types(
                            m, fillna(ValueAt(rows[k])))]]

\* the one call of prepare_timeline_data of a run, with the default
\* max_frames
PrepareTimeline(m, results) ==
    /\ ret = NoReturn
    /\ ret' = [fn |-> m, kind |-> "timeline", results |-> results,
               timeline |-> prepare_timeline_data(
                                m, results, TimelineColumns,
                                DefaultMaxFrames)]
    /\ UNCHANGED <<now, jobvars, sidevars, made, analysis_cache,
                   cache_timestamps, reqs>>

TimelineNext ==
    \E m \in Modules, results \in FrameTables : PrepareTimeline(m, results)

TimelineSpec == Init /\ [][TimelineNext]_vars

\* ---------------------------------------------------------- find_peaks
\* the values of a signal, in tenths: below, at and above the default
\* threshold
Levels == {5, PeakThreshold, 9}
Thresholds == {5, PeakThreshold}

\* the signals up to length n
RECURSIVE SignalsUpTo(_)
SignalsUpTo(n) ==
    IF n = 0 THEN {<<>>}
    ELSE LET shorter == SignalsUpTo(n - 1)
         IN  shorter \cup {Append(s, v) : s \in shorter, v \in Levels}

\* n teeth: a low value and a high one, n times
Saw(n) == [i \in 1..(2 * n) |-> IF i % 2 = 1 THEN 5 ELSE 9]

\* the signals find_peaks is called with: any short signal, then a number
\* of teeth, then at most one more value
Signals ==
    {(pre \o Saw(n)) \o post :
        pre \in SignalsUpTo(MaxSignal), n \in 0..MaxTeeth,
        post \in SignalsUpTo(1)}

\* values[i], with Python's index from 0
At(values, i) == values[i + 1]

\* find_peaks: the condition of the loop body
is_peak(values, threshold, i) ==
    /\ At(values, i) > threshold
    /\ At(values, i) > At(values, i - 1)
    /\ At(values, i) > At(values, i + 1)

\* find_peaks: the loop for i in range(1, len(values) - 1), from i on
RECURSIVE peaks_from(_, _, _, _)
peaks_from(values, threshold, i, peaks) ==
    IF i >= Len(values) - 1 THEN peaks
    ELSE peaks_from(values, threshold, i + 1,
                    IF is_peak(values, threshold, i)
                    THEN Append(peaks, i) ELSE peaks)

\* a find_peaks that returns every peak
find_peaks_untruncated(values, threshold) ==
    IF Len(values) < 3 THEN <<>>
    ELSE peaks_from(values, threshold, 1, <<>>)

\* find_peaks
find_peaks(values, threshold) ==
    IF Len(values) < 3 THEN <<>>
    ELSE LET peaks == peaks_from(values, threshold, 1, <<>>)
         IN  SubSeq(peaks, 1, Min(Len(peaks), MaxPeaks))

\* the one call of find_peaks of a run
FindPeaks(values, threshold) ==
    /\ ret = NoReturn
    /\ ret' = [fn |-> "recognizer", kind |-> "peaks", values |-> values,
               threshold |-> threshold,
               peaks |-> find_peaks(values, threshold)]
    /\ UNCHANGED <<now, jobvars, sidevars, made, analysis_cache,
                   cache_timestamps, reqs>>

PeaksNext ==
    \E values \in Signals, threshold \in Thresholds :
        FindPeaks(values, threshold)

PeaksSpec == Init /\ [][PeaksNext]_vars

\* ------------------------------------- extract_emotional_key_moments
\* emotions_to_track, in the order of the list
TrackedEmotions ==
    <<"anger", "disgust", "fear", "happiness", "sadness", "surprise">>

\* The emotion columns a frame table of the runs can have, and the rows it
\* is made of.  The values are in tenths: 3 is an increase of exactly the
\* threshold over 0, 4 one above it, 8 one above it over 4.
EmotionColumns == {"anger", "surprise"}
Row(a, s) == [anger |-> a, surprise |-> s]
RowKinds ==
    {Row(0, 0), Row(3, 0), Row(4, 0), Row(8, 0), Row(0, 4), Row(NaN, 4)}

\* the sequences of up to n rows
RECURSIVE RowsUpTo(_)
RowsUpTo(n) ==
    IF n = 0 THEN {<<>>}
    ELSE LET shorter == RowsUpTo(n - 1)
         IN  shorter \cup {Append(s, r) : s \in shorter, r \in RowKinds}

\* n rows without an emotion
Flat(n) == [i \in 1..n |-> Row(0, 0)]
\* n times a row without an emotion and a row where anger is up by 0.4
Spikes(n) == [i \in 1..(2 * n) |-> IF i % 2 = 1 THEN Row(0, 0) ELSE Row(4, 0)]

\* The frame tables: some rows of any kind and then a number of spikes, or
\* rows that reach the row limit and then spikes.  A table has one row per
\* frame, or (paired) one row for frame 0 and two rows, of two faces, for
\* every later frame.  Its 'times' column holds the position of the row.
KeyMomentTables ==
    {[rows |-> free \o Spikes(n), columns |-> columns, paired |-> paired] :
        free \in RowsUpTo(MaxFree), n \in 0..MaxSpikes,
        columns \in (SUBSET EmotionColumns) \ {{"anger"}},
        paired \in BOOLEAN}
    \cup
    {[rows |-> Flat(RowLimit - back) \o Spikes(n),
      columns |-> EmotionColumns, paired |-> paired] :
        back \in 0..MaxFree, n \in 1..MaxSpikes, paired \in BOOLEAN}

\* results_df_copy.index[i], the frame number of row i (from 0)
index(table, i) == IF table.paired THEN (i + 1) \div 2 ELSE i
\* results_df_copy.iloc[i][emotion]
Cell(table, i, emotion) == table.rows[i + 1][emotion]
\* pd.notna
notna(x) == x # NaN

\* available_emotions
available_emotions(table) ==
    SelectSeq(TrackedEmotions, LAMBDA e : e \in table.columns)

\* a condition that takes an increase of exactly the threshold too
is_spike_inclusive(table, i, emotion) ==
    LET current_value == Cell(table, i, emotion)
        previous_value == Cell(table, i - 1, emotion)
    IN  /\ notna(current_value)
        /\ notna(previous_value)
        /\ current_value - previous_value >= SpikeThreshold

\* extract_emotional_key_moments: the condition under which a moment is
\* appended for an emotion at row i
is_spike(table, i, emotion) ==
    LET current_value == Cell(table, i, emotion)
        previous_value == Cell(table, i - 1, emotion)
    IN  /\ notna(current_value)
        /\ notna(previous_value)
        /\ current_value - previous_value > SpikeThreshold

\* the dict appended for a spike of emotion at row i: the row's time, the
\* emotion and the increase its 'reason' names, its type and frame number
Moment(table, i, emotion) ==
    [timestamp |-> i, emotion |-> emotion,
     increase |-> Cell(table, i, emotion) - Cell(table, i - 1, emotion),
     type |-> "emotion_spike", frameNumber |-> index(table, i)]

\* extract_emotional_key_moments: the loop over the rows, from row i on
RECURSIVE key_moments_from(_, _, _, _)
key_moments_from(table, i, key_moments, processed) ==
    IF i >= Min(Len(table.rows), RowLimit) THEN key_moments
    ELSE IF index(table, i) \in processed
    THEN key_moments_from(table, i + 1, key_moments, processed)
    ELSE LET emotions == available_emotions(table)
             hits == {k \in DOMAIN emotions : is_spike(table, i, emotions[k])}
             first == CHOOSE k \in hits : \A j \in hits : k <= j
             moments == IF hits = {} THEN key_moments
                        ELSE Append(key_moments,
                                    Moment(table, i, emotions[first]))
             seen == IF hits = {} THEN processed
                     ELSE processed \cup {index(table, i)}
         IN  IF Len(moments) >= MaxKeyMoments THEN moments
             ELSE key_moments_from(table, i + 1, moments, seen)

\* extract_emotional_key_moments
extract_emotional_key_moments(table) ==
    IF \/ table.columns = {}
       \/ Len(table.rows) < 2
       \/ available_emotions(table) = <<>>
    THEN <<>>
    ELSE key_moments_from(table, 1, <<>>, {})

\* the one call of extract_emotional_key_moments of a run, with any of the
\* frame tables
ExtractKeyMoments ==
    /\ ret = NoReturn
    /\ \E table \in KeyMomentTables :
          ret' = [fn |-> "recognizer", kind |-> "key_moments",
                  table |-> table,
                  key_moments |-> extract_emotional_key_moments(table)]
    /\ UNCHANGED <<now, jobvars, sidevars, made, analysis_cache,
                   cache_timestamps, reqs>>

KeyMomentsNext == ExtractKeyMoments

KeyMomentsSpec == Init /\ [][KeyMomentsNext]_vars

\* ------------------------------------------------------------ properties
Known(id) == jobs[id] # 0
StatusOf(id) == heap[jobs[id]].status
ProcessingJobs == {id \in JobIds : Known(id) /\ StatusOf(id) = PROCESSING}
QueuedJobs == {id \in JobIds : Known(id) /\ StatusOf(id) = QUEUED}
WaitingCalls == {c \in Calls : call[c].pc = "waiting"}
\* the process_job calls that wait for a slot with a job that is QUEUED
QueuedWaiters ==
    {c \in WaitingCalls : heap[call[c].obj].status = QUEUED}

\* C1: at most max_workers jobs of the job table have status PROCESSING,
\* in every reachable state.
C1_AtMostMaxWorkersProcessing == Cardinality(ProcessingJobs) <= max_workers

\* C1 witness: all slots are in use by PROCESSING jobs while a further job
\* is QUEUED and its process_job call waits for a slot.
C1_Witness ==
    /\ Cardinality(ProcessingJobs) = max_workers
    /\ QueuedWaiters # {}

\* C2: a job whose status is COMPLETED, FAILED or CANCELLED keeps that
\* status in every later step.
C2_TerminalStatusNeverChanges ==
    [][\A o \in Objs :
          heap[o].status \in Terminal => heap'[o].status = heap[o].status]_vars

\* C3: a job for which cancel_job returned True while it was QUEUED never
\* has status PROCESSING afterwards.
C3_CancelledQueuedNeverProcessing ==
    \A o \in cancelledQ : heap[o].status # PROCESSING

\* C4: cancel_job on a PROCESSING job returns True and leaves the job
\* CANCELLED with completed_at set.
C4_CancelProcessingSucceeds ==
    [][\A id \in JobIds :
          (CancelJob(id) /\ Known(id) /\ StatusOf(id) = PROCESSING)
          => /\ last'.ret
             /\ heap'[jobs[id]].status = CANCELLED
             /\ heap'[jobs[id]].completed_at # None]_vars

\* C5: when every slot is held by a PROCESSING job whose detector call has
\* not returned, another job is QUEUED with its process_job waiting, and
\* one of the PROCESSING jobs is cancelled, then its slot is released in
\* that step and handed to a waiting process_job call, with no detector
\* call having returned.
C5_CancelProcessingFreesSlot ==
    [][\A id \in JobIds :
          (CancelJob(id) /\ Known(id) /\ StatusOf(id) = PROCESSING
             /\ Cardinality(ProcessingJobs) = max_workers
             /\ \A j \in ProcessingJobs :
                   \E c \in Calls : /\ call[c].obj = jobs[j]
                                    /\ call[c].pc = "detecting"
             /\ QueuedWaiters # {})
          => \E c \in WaitingCalls : call'[c].pc = "acquired"]_vars

TimeoutError == "timeout"

\* C6: a job whose detector call never returns eventually has status FAILED
\* with the timeout error.
C6_HungDetectionTimesOut ==
    \A c \in Calls :
        <>[](call[c].pc = "detecting")
        => <>(/\ call[c].obj # 0
              /\ heap[call[c].obj].status = FAILED
              /\ heap[call[c].obj].error = TimeoutError)

\* C7: create_job with a job_id that is already in the job table fails and
\* leaves the job table and every Job record as they were.
C7_DuplicateCreateRejected ==
    [][\A id \in JobIds, p \in Payloads :
          (CreateJob(id, p) /\ Known(id))
          => /\ ~last'.ret
             /\ jobs' = jobs
             /\ heap' = heap]_vars

\* C8: create_job with a fresh job_id is possible in every state, whatever
\* the number of QUEUED and PROCESSING jobs, and it inserts a Job that is
\* QUEUED with progress 0, no result, no error and no timestamps.
C8_FreshCreateNeverBlocks ==
    /\ [](\A id \in JobIds, p \in Payloads :
            (FreshId(id) /\ Len(heap) < MaxCreates) => ENABLED CreateJob(id, p))
    /\ [][\A id \in JobIds, p \in Payloads :
            (CreateJob(id, p) /\ ~Known(id))
            => /\ last'.ret
               /\ Known(id)'
               /\ LET job == heap'[jobs'[id]]
                  IN  /\ job.job_id = id
                      /\ job.payload = p
                      /\ job.status = QUEUED
                      /\ job.progress = 0
                      /\ job.result = NoResult
                      /\ job.error = NoError
                      /\ job.started_at = None
                      /\ job.completed_at = None
               /\ \A o \in Objs : heap'[o] = heap[o]]_vars

\* C8 witness: create_job has just inserted a QUEUED job while every worker
\* slot was held by a PROCESSING job.
C8_Witness ==
    /\ last.op = "create_job"
    /\ last.ret
    /\ sem = 0
    /\ active_workers = max_workers
    /\ jobs[heap[last.obj].job_id] = last.obj
    /\ heap[last.obj].status = QUEUED
    /\ Cardinality(ProcessingJobs) = max_workers

\* C9: cancel_job on an unknown job_id, or on a job that is COMPLETED,
\* FAILED or CANCELLED, returns False and changes no job field and no
\* statistics counter.
C9_CancelUnknownOrTerminalIsNoOp ==
    [][\A id \in JobIds :
          (CancelJob(id) /\ (~Known(id) \/ StatusOf(id) \in Terminal))
          => /\ ~last'.ret
             /\ heap' = heap
             /\ jobs' = jobs
             /\ stats' = stats]_vars

\* C9 witness: a second cancel_job of a cancelled job has returned False
\* and the job is counted as cancelled once.
C9_Witness ==
    /\ last.op = "cancel_job"
    /\ ~last.ret
    /\ last.obj # 0
    /\ heap[last.obj].status = CANCELLED
    /\ stats.total_cancelled = 1

\* C10: once a job is CANCELLED no field of its record is written again.
C10_CancelledRecordFrozen ==
    [][\A o \in Objs :
          heap[o].status = CANCELLED => heap'[o] = heap[o]]_vars

\* C11: a step that leaves a job PROCESSING does not lower its progress:
\* the progress values seen while the job is PROCESSING never decrease.
C11_ProgressNonDecreasing ==
    [][\A o \in Objs :
          (heap[o].status = PROCESSING /\ heap'[o].status = PROCESSING)
          => heap'[o].progress >= heap[o].progress]_vars

\* C12: in every reachable state a job has a result only if it is
\* COMPLETED and an error only if it is FAILED, and never both.
C12_ResultErrorExclusive ==
    \A o \in Objs :
        /\ heap[o].result # NoResult => heap[o].status = COMPLETED
        /\ heap[o].error # NoError => heap[o].status = FAILED
        /\ ~(heap[o].result # NoResult /\ heap[o].error # NoError)

\* C13: in every reachable state started_at is None while a job is QUEUED,
\* completed_at is None while it is QUEUED or PROCESSING and completed_at
\* is set when it is COMPLETED, FAILED or CANCELLED.
C13_TimestampsFollowStatus ==
    \A o \in Objs :
        /\ heap[o].status = QUEUED => heap[o].started_at = None
        /\ heap[o].status \in {QUEUED, PROCESSING}
              => heap[o].completed_at = None
        /\ heap[o].status \in Terminal => heap[o].completed_at # None

\* C14: in every reachable state a FAILED or CANCELLED job has progress 0
\* and a COMPLETED job has progress 1.0 (100 percent).
C14_TerminalProgress ==
    \A o \in Objs :
        /\ heap[o].status \in {FAILED, CANCELLED} => heap[o].progress = 0
        /\ heap[o].status = COMPLETED => heap[o].progress = 100

\* an exception with text e leaves the analysis of call c and reaches the
\* except clause of _process_job_internal
Raises(c, e) ==
    \/ DetectRaises(c, e)
    \/ e = DetectorError /\ DetectorInitFails(c)

\* the slot of a call that left the async with is free again or has been
\* handed to a waiting process_job call
SlotReleased ==
    \/ sem' = sem + 1
    \/ sem' = sem /\ \E w \in WaitingCalls : call'[w].pc = "acquired"

\* C15: when the analysis raises an exception, process_job returns, the job
\* is FAILED with error equal to the exception text and no result,
\* total_failed grows by one, and the slot and active_workers are released.
C15_ExceptionCaptured ==
    [][\A c \in Calls, e \in {NoFacesError, DetectorError} :
          Raises(c, e)
          => /\ call'[c].pc = "done"
             /\ heap'[call[c].obj].status = FAILED
             /\ heap'[call[c].obj].error = e
             /\ heap'[call[c].obj].result = NoResult
             /\ stats'.total_failed = stats.total_failed + 1
             /\ stats'.total_completed = stats.total_completed
             /\ active_workers' = active_workers - 1
             /\ SlotReleased]_vars

\* str.lower on the letters that occur in the messages
LowerChar(ch) ==
    CASE ch = "A" -> "a" [] ch = "N" -> "n" [] ch = "F" -> "f"
      [] ch = "P" -> "p" [] ch = "J" -> "j" [] ch = "I" -> "i"
      [] ch = "R" -> "r" [] ch = "C" -> "c"
      [] OTHER -> ch

RECURSIVE Lower(_)
Lower(str) ==
    IF Len(str) = 0 THEN ""
    ELSE LowerChar(SubSeq(str, 1, 1)) \o Lower(SubSeq(str, 2, Len(str)))

\* sub in str
Contains(str, sub) ==
    \E i \in 1..(Len(str) - Len(sub) + 1) :
        SubSeq(str, i, i + Len(sub) - 1) = sub

\* C16: when the detector returns an empty table the job is FAILED, its
\* message contains "no face" (case-insensitive), error is non-empty,
\* result is None, and the error text differs from the one of any other
\* detector exception.
C16_NoFacesDistinguishable ==
    [][\A c \in Calls :
          DetectRaises(c, NoFacesError)
          => LET job == heap'[call[c].obj]
             IN  /\ job.status = FAILED
                 /\ Contains(Lower(job.message), "no face")
                 /\ job.error # NoError /\ job.error # ""
                 /\ job.result = NoResult
                 /\ job.error # DetectorError]_vars

\* every job of the job table has a terminal status and every process_job
\* call that was started has returned
AllSettled ==
    /\ \A id \in JobIds : Known(id) => StatusOf(id) \in Terminal
    /\ \A c \in Objs : call[c].pc = "done"

\* C17: when process_job is invoked for every created job and every
\* detector call returns or raises, then from any state the run comes to a
\* state in which every job of the job table has a terminal status and
\* every process_job call, also one that had to wait for a slot, has
\* returned: no job stays QUEUED or PROCESSING forever.
C17_EveryJobTerminates == []<>AllSettled

\* C17 witness: a process_job call that found every slot taken has been
\* handed the slot of a job that reached a terminal status.
C17_Witness ==
    \E c \in Calls :
        /\ call[c].pc = "acquired"
        /\ heap[call[c].obj].status = QUEUED
        /\ \E id \in JobIds : Known(id) /\ StatusOf(id) \in {COMPLETED, FAILED}

\* the jobs other than o that completed less than the TTL ago on the same
\* content and settings as o
CompletedTwins(o) ==
    {q \in Objs \ {o} : /\ heap[q].status = COMPLETED
                        /\ heap[q].payload = heap[o].payload
                        /\ heap[q].job_id # heap[o].job_id
                        /\ now - heap[q].completed_at < CACHE_TTL_SECONDS}

\* C18: a job submitted through create_job and process_job with the content
\* and settings of a job that completed within the cache TTL causes no
\* second detector call.
C18_JobPathUsesCache ==
    [][\A c \in Calls :
          DetectStart(c) => CompletedTwins(call[c].obj) = {}]_vars

\* content_sample of each upload
Sample == [ct \in ContentIds |-> Take(Bytes(ct), SampleBytes)]

\* two calls whose contents agree on the sampled bytes and whose configs
\* agree on frame_skip, analysis_type and detection_threshold
SameKeyInputs(a, b) ==
    /\ a.fn = b.fn
    /\ Sample[a.content] = Sample[b.content]
    /\ a.config.frame_skip = b.config.frame_skip
    /\ a.config.analysis_type = b.config.analysis_type
    /\ a.config.detection_threshold = b.config.detection_threshold

\* C19: two calls of generate_cache_key (of the same module) return the
\* same key whenever the contents agree on the first 1024 bytes and the
\* configs agree on frame_skip, analysis_type and detection_threshold,
\* whatever the times of the calls and whatever else differs.
C19_KeyDeterministic ==
    \A i, j \in 1..Len(made) :
        SameKeyInputs(made[i], made[j]) => made[i].key = made[j].key

\* C19 witness: two calls at different times returned the same key, for
\* contents that differ after the first 1024 bytes and configs that differ
\* in visualization_style.
C19_Witness ==
    /\ Len(made) = 2
    /\ SameKeyInputs(made[1], made[2])
    /\ made[1].at # made[2].at
    /\ made[1].content # made[2].content
    /\ made[1].config # made[2].config
    /\ made[1].key = made[2].key

\* module m holds an entry for key k whose age is at least the TTL
Expired(m, k) ==
    /\ k \in DOMAIN analysis_cache[m]
    /\ k \in DOMAIN cache_timestamps[m]
    /\ now - cache_timestamps[m][k] >= CACHE_TTL_SECONDS

\* the lookup that has just been made for key k in module m missed and the
\* entry of k is gone from both dicts
PurgedMiss(m, k) ==
    /\ ret'.kind = "miss"
    /\ k \notin DOMAIN analysis_cache'[m]
    /\ k \notin DOMAIN cache_timestamps'[m]

\* C20: a cache lookup that finds an entry whose age is at least the TTL
\* behaves as a miss and removes the entry from the result map and from
\* the timestamp map, in both cached entry points.
C20_ExpiredEntryPurgedOnAccess ==
    [][/\ \A ct \in RequestContents, config \in RequestConfigs :
            (LegacyBegin(ct, config)
               /\ Expired("recognizer", generate_cache_key(ct, config)))
            => PurgedMiss("recognizer", generate_cache_key(ct, config))
       /\ \A r \in Requests :
            (AppLookup(r) /\ Expired("app", r.key))
            => PurgedMiss("app", r.key)]_vars

\* the result cache of module m holds its maximum number of entries
Full(m) == Cardinality(DOMAIN analysis_cache[m]) = MaxCacheEntries

\* the analysis of request r succeeded and its store step finds the cache
\* of its entry point full, with no entry for the key of r
StoresWhenFull(r) ==
    /\ LegacyEnd(r, TRUE) \/ AppEnd(r, TRUE)
    /\ Full(r.fn)
    /\ r.key \notin DOMAIN analysis_cache[r.fn]

\* a request for the i-th pair is looked up in the cache of module m, which
\* has no entry for it
LooksUpAbsent(m, i) ==
    /\ KeyOf(m, "A", FillConfig(i), "f1") \notin DOMAIN analysis_cache[m]
    /\ \/ m = "recognizer" /\ FillLegacy(i)
       \/ m = "app" /\ \E r \in FillRequests :
                          r.config = FillConfig(i) /\ AppLookup(r)

\* C21: the result cache of either entry point never holds more than
\* MaxCacheEntries (20) entries; a store step that finds the cache full and
\* the key new leaves both maps as they are, and a request for a pair that
\* has no entry misses the cache.
C21_CacheBoundedRejectsWhenFull ==
    /\ [](\A m \in Modules :
            Cardinality(DOMAIN analysis_cache[m]) <= MaxCacheEntries)
    /\ [][\A r \in FillRequests :
            StoresWhenFull(r)
            => /\ analysis_cache' = analysis_cache
               /\ cache_timestamps' = cache_timestamps]_vars
    /\ [][\A m \in Modules, i \in 1..FillPairs :
            LooksUpAbsent(m, i) => ret'.kind = "miss"]_vars

\* the entries of the result caches an operator reset is to remove: for the
\* endpoint of app.py those of its module, for the JobManager its own dict
\* and the cache of the analysis module it runs
ResultCacheSize(fn) ==
    IF fn = "app" THEN Cardinality(DOMAIN analysis_cache["app"])
    ELSE Cardinality(DOMAIN self_cache)
         + Cardinality(DOMAIN analysis_cache["recognizer"])

\* C22: a cache_clear operation (clear_cache_endpoint of app.py,
\* JobManager.clear_cache) returns the number of result-cache entries that
\* existed right before the call and leaves the result cache, with its
\* timestamps, empty in that one step.
C22_ClearReturnsCountAndEmpties ==
    [][/\ ClearCacheEndpoint
          => /\ ret'.count = ResultCacheSize("app")
             /\ analysis_cache'["app"] = NoEntries
             /\ cache_timestamps'["app"] = NoEntries
       /\ ClearCache
          => /\ ret'.count = ResultCacheSize("job_manager")
             /\ analysis_cache'["recognizer"] = NoEntries
             /\ cache_timestamps'["recognizer"] = NoEntries]_vars

\* the jobs of the table that are terminal and whose completed_at is more
\* than the retention window (one hour) ago
Stale ==
    {id \in JobIds :
        /\ Known(id)
        /\ StatusOf(id) \in Terminal
        /\ heap[jobs[id]].completed_at # None
        /\ now - heap[jobs[id]].completed_at > RetentionSeconds}

\* C23: a sweep of _cleanup_old_jobs removes every job of the table that is
\* COMPLETED, FAILED or CANCELLED with completed_at more than one hour ago,
\* after which get_job returns None for its id; it leaves every other entry
\* of the table (QUEUED, PROCESSING, or terminal for at most one hour) and
\* every Job object as they are.
C23_SweepRemovesExactlyStale ==
    [][CleanupOldJobs
       => /\ \A id \in Stale : get_job(id)' = 0
          /\ \A id \in JobIds \ Stale : get_job(id)' = get_job(id)
          /\ heap' = heap]_vars

\* C23 witness: a sweep has removed a job that ended more than an hour
\* ago, while the table keeps a terminal job that ended less than an hour
\* ago.
C23_Witness ==
    /\ \E o \in Objs :
          /\ jobs[heap[o].job_id] = 0
          /\ heap[o].status \in Terminal
          /\ now - heap[o].completed_at > RetentionSeconds
    /\ \E id \in JobIds :
          /\ Known(id)
          /\ StatusOf(id) \in Terminal
          /\ now - heap[jobs[id]].completed_at < RetentionSeconds

\* the jobs of the table that are QUEUED or PROCESSING for session s
InFlight(s) ==
    {id \in JobIds :
        /\ Known(id)
        /\ session_id(heap[jobs[id]]) = s
        /\ StatusOf(id) \in {QUEUED, PROCESSING}}

\* C24: create_job for a session whose status is "processing" creates no
\* Job and leaves the table as it is, and no session ever has two jobs that
\* are QUEUED or PROCESSING at the same time.
C24_OneInFlightJobPerSession ==
    /\ [][\A id \in JobIds, p \in SessionPayloads :
             ( /\ CreateJob(id, p)
               /\ p.session_id \in DOMAIN sessions
               /\ sessions[p.session_id].status = "processing" )
             => heap' = heap /\ jobs' = jobs]_vars
    /\ [](\A s \in SessionIds : Cardinality(InFlight(s)) <= 1)

\* the process_job calls whose detector reads the file at path
DetectorOn(path) ==
    {c \in Calls : call[c].pc = "detecting" /\ call[c].path = path}

\* C26: when convert_video returns False the analysis goes on: the job is
\* not failed by it, the detector is called with the original input path
\* and the job can still end COMPLETED; when convert_video returns True the
\* detector is called with the converted path.
C26_ConversionFailureFallsBack ==
    /\ [][\A c \in Calls, ok \in BOOLEAN :
             ConvertDone(c, ok)
             => /\ call'[c].pc = "det_pending"
                /\ call'[c].path = IF ok THEN "tmp_output" ELSE "tmp_input"
                /\ heap'[call[c].obj].status = heap[call[c].obj].status
                /\ heap'[call[c].obj].error = heap[call[c].obj].error]_vars
    /\ [][\A c \in Calls :
             DetectStart(c) => call'[c].path = call[c].path]_vars
    /\ [][\A c \in DetectorOn("tmp_input") :
             DetectReturns(c) => heap'[call[c].obj].status = COMPLETED]_vars
    /\ [](\A c \in DetectorOn("tmp_input") : ENABLED DetectReturns(c))

\* C26 witness: the detector runs on the original file of a .webm upload,
\* after a conversion that failed, next to or after a detector that ran on
\* a converted file.
C26_Witness ==
    /\ \E c \in DetectorOn("tmp_input") : heap[call[c].obj].payload.webm
    /\ \/ DetectorOn("tmp_output") # {}
       \/ \E o \in Objs : heap[o].status = COMPLETED /\ heap[o].payload.webm

\* the sessions created more than max_age_hours hours before now
OlderThan(max_age_hours) ==
    {s \in DOMAIN sessions :
        now - sessions[s].created_at > max_age_hours * 3600}

\* C27: cleanup_old_sessions(max_age_hours) removes exactly the sessions
\* whose created_at is more than max_age_hours before now, whatever their
\* status and current_job, and leaves every other session as it is.
C27_SessionSweepIgnoresStatus ==
    [][\A max_age_hours \in MaxAgeHours :
          CleanupOldSessions(max_age_hours)
          => /\ DOMAIN sessions' = DOMAIN sessions \ OlderThan(max_age_hours)
             /\ \A s \in DOMAIN sessions' : sessions'[s] = sessions[s]]_vars

\* C27 witness: a sweep is due that removes a session that is "processing"
\* with a current job, and keeps a younger session.
C27_Witness ==
    \E max_age_hours \in MaxAgeHours : \E s \in OlderThan(max_age_hours) :
        /\ sessions[s].status = "processing"
        /\ sessions[s].current_job # NoJob
        /\ Known(sessions[s].current_job)
        /\ DOMAIN sessions \ OlderThan(max_age_hours) # {}

\* the series s holds the rows 0, step, 2 * step, ... of a table of len
\* rows, up to the last such row
UniformStride(s, len, step) ==
    /\ \A k \in DOMAIN s : s[k] = (k - 1) * step
    /\ Len(s) * step >= len

\* C28: for every frame table, also one of more than 500 and fewer than
\* 1000 rows, prepare_timeline_data returns timestamps and one series per
\* column of at most max_frames (500) points each, all of the same length,
\* holding the rows of a uniform stride that starts at row 0 and goes
\* through the whole table.
C28_TimelineBoundedUniform ==
    ret.kind = "timeline"
    => LET t == ret.timeline
       IN  /\ \A f \in DOMAIN t :
                 /\ Len(t[f]) <= DefaultMaxFrames
                 /\ Len(t[f]) = Len(t["timestamps"])
           /\ ret.results.times
              => \E step \in 1..(ret.results.len + 1) :
                    UniformStride(t["timestamps"], ret.results.len, step)

\* settings that are not valid JSON, or that name an unknown analysis type
\* or visualization style
Malformed(settings) ==
    /\ settings.given
    /\ \/ ~settings.json
       \/ settings.analysisType \notin AnalysisTypes
       \/ settings.visualizationStyle \notin VisualizationStyles

\* the calls whose detector has been submitted or is running
Analysing == {c \in Calls : call[c].pc \in {"det_pending", "detecting"}}

\* C25: create_job with settings that are malformed creates no Job and
\* leaves the table as it is; no job is analysed with malformed settings,
\* and none with the default config in place of what its settings say.
C25_MalformedSettingsRejected ==
    /\ [][\A id \in JobIds, p \in SettingsPayloads :
             CreateJob(id, p) /\ Malformed(p.settings)
             => heap' = heap /\ jobs' = jobs]_vars
    /\ [](\A c \in Analysing : ~Malformed(settings_of(c)))
    /\ [](\A c \in Analysing :
             config_of(c) = DefaultConfig
             => \/ ~settings_of(c).given
                \/ /\ settings_of(c).frameSkip = DefaultConfig.frame_skip
                   /\ settings_of(c).analysisType
                          = DefaultConfig.analysis_type
                   /\ settings_of(c).visualizationStyle
                          = DefaultConfig.visualization_style)

\* the store cannot be reached when a call starts: the constructor found
\* no connection, or the store is down
Unreachable == redis_client = NoClient \/ ~store.up

\* a call of RedisManager, with the connection dropping in it (drop) or not
RedisOp(drop) ==
    \/ ~drop /\ Ping
    \/ ~drop /\ \E s \in SessionIds, h \in VideoHashes : GetCachedResult(s, h)
    \/ ~drop /\ \E s \in SessionIds, h \in VideoHashes,
                   result \in CachedResults : CacheResult(s, h, result)
    \/ ~drop /\ GetQueueLength
    \/ \E s \in SessionIds : ClearSessionCache(s, drop)
    \/ ClearAllCache(drop)
    \/ GetCacheInfo(drop)

\* what each call hands back when the store is not used
Degraded(op) ==
    CASE op = "ping" -> FALSE
      [] op = "get_cached_result" -> NoValue
      [] op = "cache_result" -> NoValue
      [] op = "clear_session_cache" -> NoValue
      [] op = "get_queue_length" -> 0
      [] op = "clear_all_cache" -> 0
      [] op = "get_cache_info" -> NoCacheInfo

\* the call of this step returned what it returns without a store, and
\* did nothing to the data of the store
DegradedStep ==
    /\ ret'.kind = "returned"
    /\ ret'.value = Degraded(ret'.op)
    /\ store'.data = store.data

ReadView ==
    \/ \E id \in JobIds : GetJob(id)
    \/ GetActiveJobs
    \/ GetQueuedJobs
    \/ GetStats

\* the ids of the table whose job has one of the statuses
IdsWithStatus(statuses) ==
    {id \in JobIds : Known(id) /\ StatusOf(id) \in statuses}

\* C30: get_job, get_active_jobs, get_queued_jobs and get_stats leave the
\* job table, every field of every job, the statistics counters and the
\* worker slots as they are; get_active_jobs lists exactly the jobs of the
\* table that are QUEUED or PROCESSING, get_queued_jobs exactly those that
\* are QUEUED.
C30_ReadViewsMutateNothing ==
    /\ [][ReadView
          => UNCHANGED <<jobs, heap, stats, active_workers, sem, waiters,
                         call>>]_vars
    /\ [][GetActiveJobs
          => /\ {d.job_id : d \in ret'.value}
                = IdsWithStatus({QUEUED, PROCESSING})
             /\ \A d \in ret'.value :
                   /\ d.status = StatusOf(d.job_id)
                   /\ d.progress = heap[jobs[d.job_id]].progress]_vars
    /\ [][GetQueuedJobs
          => {d.job_id : d \in ret'.value} = IdsWithStatus({QUEUED})]_vars

\* C30 witness: get_active_jobs has returned a PROCESSING job while the
\* table holds a job that has ended, which it left out.
C30_Witness ==
    /\ ret.fn = "job_manager"
    /\ ret.kind = "get_active_jobs"
    /\ \E d \in ret.value : d.status = PROCESSING
    /\ IdsWithStatus(Terminal) # {}

\* the process_job calls that are inside the async with of the semaphore
SlotHolders ==
    {c \in Calls :
        call[c].pc \in {"conv_pending", "converting", "det_pending",
                        "detecting"}}

\* C31: at every scheduling point active_workers is the number of
\* process_job calls that hold a slot of the semaphore, it is the number of
\* jobs of the table whose status is PROCESSING (active_jobs of get_stats),
\* and it is between 0 and max_workers.
C31_ActiveWorkersCountsProcessing ==
    /\ active_workers = Cardinality(SlotHolders)
    /\ active_workers = get_stats.active_jobs
    /\ 0 <= active_workers
    /\ active_workers <= max_workers

\* the sum of the three terminal counters
TerminalCount ==
    stats.total_completed + stats.total_failed + stats.total_cancelled

\* this step counts the job of call c as completed or as failed
CountsJob(c) ==
    \/ DetectReturns(c)
    \/ \E e \in {NoFacesError, DetectorError} : DetectRaises(c, e)
    \/ DetectorInitFails(c)

\* C32: in every reachable state total_completed + total_failed +
\* total_cancelled is at most total_submitted, and a job that was counted as
\* cancelled is never counted as completed or failed later.
C32_TerminalCountersDisjoint ==
    /\ [](TerminalCount <= stats.total_submitted)
    /\ [][\A c \in Calls : CountsJob(c) => call[c].obj \notin cancelledQ]_vars

\* the call of this step returned a cached result that was computed from
\* the content ct under the config config
HitComputedFrom(ct, config) ==
    ret'.kind = "hit"
    => /\ ret'.result.content = ct
       /\ ret'.result.config = config

\* C33: a cache hit returns only a result that was computed from the full
\* content and the full config of the request: requests whose contents
\* differ after the first 1024 bytes only, or whose configs differ in
\* visualization_style or batch_size only, never get each other's result.
C33_HitMatchesFullRequest ==
    [][/\ \A ct \in RequestContents, config \in RequestConfigs :
            LegacyBegin(ct, config) => HitComputedFrom(ct, config)
       /\ \A r \in Requests :
            AppLookup(r) => HitComputedFrom(r.content, r.config)]_vars

\* the calls of analyze_facial_expressions with the arguments of r that
\* are awaiting their analysis: each of them has invoked the detector
AwaitingAnalysis(r) == CopiesIn(r, reqs.open)

\* C34: of two identical requests to the cached entry point that overlap
\* in time (the second arrives while the first is awaiting its analysis),
\* at most one invokes the detector: no two calls with the same arguments
\* are awaiting an analysis at the same time.
C34_OverlapAnalysedOnce ==
    \A r \in Requests : r.fn = "recognizer" => AwaitingAnalysis(r) <= 1

\* the moment an entry of analyze_video's cache was stored: its result is
\* built at the store, and processed_at is the time of that moment
stored_at(k) == analysis_cache["app"][k].processed_at

\* C35: in analyze_video, a stored result is served to an identical request
\* that looks it up less than the TTL after the moment of the store,
\* whatever the duration of the analysis that produced it.
C35_ServedForTtlAfterStore ==
    [][\A r \in Requests :
          (/\ AppLookup(r)
           /\ r.key \in DOMAIN analysis_cache["app"]
           /\ analysis_cache["app"][r.key].content = r.content
           /\ analysis_cache["app"][r.key].config = r.config
           /\ now - stored_at(r.key) < CACHE_TTL_SECONDS)
          => ret'.kind = "hit"]_vars

\* C36: in every reachable state the result map analysis_cache and the
\* timestamp map cache_timestamps of a module have exactly the same key
\* set, under any interleaving of analysis requests, expiry sweeps and
\* cache clears.
C36_CacheMapsSameKeys ==
    \A m \in DOMAIN analysis_cache :
        DOMAIN analysis_cache[m] = DOMAIN cache_timestamps[m]

\* the one request of the run was an analyze_video that stored its result,
\* and the entry has since expired and was removed by the sweep
C36_Witness ==
    /\ reqs.started = 1
    /\ reqs.open = EmptyBag
    /\ ret.fn = "app"
    /\ ret.kind = "computed"
    /\ analysis_cache["app"] = NoEntries
    /\ cache_timestamps["app"] = NoEntries

\* C37: after stop() has returned, no sweep deletes a job again, whatever
\* start() and stop() calls preceded it (start() called twice before
\* stop() included); stop() on a manager that was never started changes
\* nothing.
C37_NoSweepAfterStop ==
    /\ [][stop_call.pc = "returned"
             => \A t \in TaskIds : ~(TaskSweep(t) /\ jobs' # jobs)]_vars
    /\ [][(StopCall /\ Len(tasks) = 0)
             => UNCHANGED <<now, jobvars, cachevars, tasks, cleanup_task>>]_vars

\* the interior indices of a signal that are above the threshold and above
\* both neighbours
PeakIndices(values, threshold) ==
    {i \in 1..(Len(values) - 2) :
        /\ At(values, i) > threshold
        /\ At(values, i) > At(values, i - 1)
        /\ At(values, i) > At(values, i + 1)}

\* C39: find_peaks(values, threshold) returns, in increasing order, exactly
\* the interior indices i (0 < i < len-1) whose value is above the threshold
\* and above both neighbours, truncated to the first 10 of them; it returns
\* the empty list for fewer than 3 values and never index 0 or len-1.
C39_FindPeaks ==
    ret.kind = "peaks" =>
        LET values == ret.values
            peaks == ret.peaks
            all == PeakIndices(values, ret.threshold)
            returned == {peaks[k] : k \in DOMAIN peaks}
        IN  /\ \A k \in 1..(Len(peaks) - 1) : peaks[k] < peaks[k + 1]
            /\ returned \subseteq all
            /\ Len(peaks) = Min(Cardinality(all), 10)
            /\ \A i \in all \ returned : \A j \in returned : j < i
            /\ Len(values) < 3 => peaks = <<>>
            /\ 0 \notin returned
            /\ (Len(values) - 1) \notin returned

\* a signal with more than 10 peaks, of which the first 10 were returned
C39_Witness ==
    /\ ret.kind = "peaks"
    /\ Cardinality(PeakIndices(ret.values, ret.threshold)) > 10
    /\ Len(ret.peaks) = 10

\* C38: extract_emotional_key_moments returns at most 5 key moments, each
\* with a distinct frame number, in increasing row order, and each one is
\* a row i >= 1 at which some tracked emotion, tested in the order anger,
\* disgust, fear, happiness, sadness, surprise, is more than 0.3 above its
\* value in row i-1; a table with fewer than 2 rows yields the empty list.
C38_KeyMoments ==
    ret.kind = "key_moments" =>
        LET table == ret.table
            out == ret.key_moments
            order == CHOOSE f \in [EmotionColumns -> 1..Len(TrackedEmotions)] :
                        \A e \in EmotionColumns : TrackedEmotions[f[e]] = e
            Up(i, e) ==
                /\ e \in table.columns
                /\ Cell(table, i, e) # NaN
                /\ Cell(table, i - 1, e) # NaN
                /\ Cell(table, i, e) - Cell(table, i - 1, e) > 3
        IN  /\ Len(out) <= 5
            /\ \A j, k \in DOMAIN out :
                  j # k => out[j].frameNumber # out[k].frameNumber
            /\ \A j, k \in DOMAIN out :
                  j < k => out[j].timestamp < out[k].timestamp
            /\ \A k \in DOMAIN out :
                  LET i == out[k].timestamp
                      e == out[k].emotion
                  IN  /\ 1 <= i
                      /\ i < Len(table.rows)
                      /\ out[k].frameNumber = index(table, i)
                      /\ Up(i, e)
                      /\ out[k].increase > 3
                      /\ \A d \in EmotionColumns :
                            order[d] < order[e] => ~Up(i, d)
            /\ Len(table.rows) < 2 => out = <<>>

\* five moments were returned from a table with more rows that qualify:
\* one after the fifth moment, and before it a second row of a frame that
\* has a moment already
C38_Witness ==
    /\ ret.kind = "key_moments"
    /\ Len(ret.key_moments) = 5
    /\ ret.table.paired
    /\ \E i \in 2..(Len(ret.table.rows) - 1) :
          /\ i > ret.key_moments[5].timestamp
          /\ index(ret.table, i) > ret.key_moments[5].frameNumber
          /\ is_spike(ret.table, i, "anger")
    /\ \E i \in 2..(Len(ret.table.rows) - 1) :
          /\ index(ret.table, i) = index(ret.table, i - 1)
          /\ is_spike(ret.table, i, "anger")
          /\ is_spike(ret.table, i - 1, "anger")
          /\ i < ret.key_moments[5].timestamp
====
